---- MODULE Spec2Model ----
(***************************************************************************)
(* Model of the voice-inpainting token pipeline:                           *)
(*   - the session/version store (src/src/token_store.py) driven through   *)
(*     the session manager (src/src/session_manager.py);                   *)
(*   - the inpainting step it calls (src/src/integrated_inpainting.py);    *)
(*   - the token fusion engine (src/src/fusion.py).                        *)
(* Python sequences are 0-based, TLA+ sequences 1-based: index i of the    *)
(* source is element i+1 of the model's sequence.                          *)
(***************************************************************************)
EXTENDS Integers, Sequences, FiniteSets, TLC

VARIABLES
    versions,               \* TokenStore.versions
    current_version_index,  \* TokenStore.current_version_index
    current_state,          \* TokenStore.current_state   (<<>> is None)
    original_state,         \* TokenStore.original_state  (<<>> is None)
    next_id,                \* number of version ids handed out so far (uuid4 is fresh)
    response,               \* what the last call returned or raised, and what it was
    f_in,                   \* the arguments of the call or the inputs of the run under check
    f_out,                  \* what the call or the steps of the run have returned or raised
    lock,                   \* SessionManager._lock: the thread that holds it and how often
    threads,                \* the request threads: request, position in its handler, answer
    sessions                \* the ids that SessionManager.sessions and _TOKEN_STORES hold

vars == <<versions, current_version_index, current_state, original_state,
          next_id, response, f_in, f_out, lock, threads, sessions>>

storeVars == <<versions, current_version_index, current_state, original_state,
               next_id, response>>

fusionVars == <<f_in, f_out>>

threadVars == <<lock, threads, sessions>>

-----------------------------------------------------------------------------
(* Bounds of the model.                                                    *)

\* versions ever saved in one session (caps the uuid counter)
MaxSaves == 3
\* frames of the audio the session starts from
OrigFrames == 4
\* frames of the original array given to fuse_tokens
MaxOrigLen == 4
\* frames of the generated array given to fuse_tokens
MaxGenLen == 2
\* largest crossfade_frames of a fusion configuration
MaxCrossfade == 3

\* the latest time of a word, in sixteenths of a second
MaxTime == 4
\* frames of the emission given to the aligner
MaxEmissionFrames == 3

-----------------------------------------------------------------------------
(* Python helpers.                                                         *)

Min(a, b) == IF a < b THEN a ELSE b

Max(a, b) == IF a > b THEN a ELSE b

\* s[:n]; a negative n counts from the end
SliceTo(s, n) == SubSeq(s, 1, IF n < 0 THEN Max(Len(s) + n, 0) ELSE Min(n, Len(s)))

\* s[n:]; a negative n counts from the end
SliceFrom(s, n) == SubSeq(s, (IF n < 0 THEN Max(Len(s) + n, 0) ELSE Min(n, Len(s))) + 1, Len(s))

\* s[a:b] for a, b >= 0
Slice(s, a, b) == SubSeq(s, Min(a, Len(s)) + 1, Min(b, Len(s)))

\* list(range(a, b))
Range(a, b) == [i \in 1 .. Max(b - a, 0) |-> a + i - 1]

None == <<>>

Some(x) == <<x>>

IsNone(o) == o = <<>>

SetMin(S) == CHOOSE x \in S : \A y \in S : x <= y

SetMax(S) == CHOOSE x \in S : \A y \in S : x >= y

\* c.isspace() for the characters of the texts
IsSpace(c) == c \in {" ", "\n", "\t"}

\* str.strip() leaves nothing: every character is white space
IsBlank(text) == \A i \in 1 .. Len(text) : IsSpace(text[i])

\* s.strip()
Strip(s) ==
    LET kept == {i \in 1 .. Len(s) : ~IsSpace(s[i])}
    IN  IF kept = {} THEN <<>> ELSE SubSeq(s, SetMin(kept), SetMax(kept))

RECURSIVE SplitWords(_)
\* s.split()
SplitWords(s) ==
    LET kept == {i \in 1 .. Len(s) : ~IsSpace(s[i])}
        first == SetMin(kept)
        spaces == {i \in first .. Len(s) : IsSpace(s[i])}
        stop == IF spaces = {} THEN Len(s) + 1 ELSE SetMin(spaces)
    IN  IF kept = {} THEN <<>>
        ELSE <<SubSeq(s, first, stop - 1)>> \o SplitWords(SubSeq(s, stop, Len(s)))

RECURSIVE Join(_, _)
\* sep.join(words)
Join(words, sep) ==
    IF Len(words) = 0 THEN <<>>
    ELSE IF Len(words) = 1 THEN words[1]
    ELSE words[1] \o sep \o Join(Tail(words), sep)

-----------------------------------------------------------------------------
(* Data.  A text is a sequence of one-character strings.  The store keeps  *)
(* one stream of frames per state: a frame stands for the column of all    *)
(* codebooks at one time step, which the store only ever moves as a whole. *)

\* TokenizedAudio
TokenizedAudio(audio, rvq_tokens, text, token_to_text_map, word_timestamps) ==
    [audio |-> audio, rvq_tokens |-> rvq_tokens, text |-> text,
     token_to_text_map |-> token_to_text_map, word_timestamps |-> word_timestamps]

\* EditOperation
EditOperation(original_text, edited_text, start_token_idx, end_token_idx) ==
    [original_text |-> original_text, edited_text |-> edited_text,
     start_token_idx |-> start_token_idx, end_token_idx |-> end_token_idx]

\* TokenStoreVersion
TokenStoreVersion(id, label, token_data, edit_description, modified, regions) ==
    [id |-> id, label |-> label, token_data |-> token_data,
     edit_description |-> edit_description,
     modified_token_indices |-> modified, generated_regions |-> regions]

\* the waveform the codec decodes from a token array
ReconstructAudio(rvq_tokens) == [kind |-> "decoded", of |-> rvq_tokens]

\* the audio the tests tokenize: "hello world test", three mapped tokens
HelloAudio ==
    TokenizedAudio(
        [kind |-> "file", of |-> Range(1, OrigFrames + 1)],
        Range(1, OrigFrames + 1),
        <<"h","e","l","l","o"," ","w","o","r","l","d"," ","t","e","s","t">>,
        (0 :> 0) @@ (1 :> 5) @@ (2 :> 11),
        << [text |-> <<"h","e","l","l","o">>, token_idx |-> None],
           [text |-> <<"w","o","r","l","d">>, token_idx |-> None],
           [text |-> <<"t","e","s","t">>, token_idx |-> None] >>)

\* an audio whose tokenizer produced no token-to-text map
UnmappedAudio ==
    TokenizedAudio(
        [kind |-> "file", of |-> Range(1, OrigFrames + 1)],
        Range(1, OrigFrames + 1),
        <<"o","k">>,
        <<>>,
        << [text |-> <<"o","k">>, token_idx |-> None] >>)

\* what AudioTokenizer.tokenize may return for the uploaded audio
TokenizeResults == {HelloAudio, UnmappedAudio}

-----------------------------------------------------------------------------
(* TokenStore                                                              *)

\* the store as one value: the fields the methods read and write
Store(vs, idx, cur, orig, nid) ==
    [versions |-> vs, current_version_index |-> idx, current_state |-> cur,
     original_state |-> orig, next_id |-> nid]

\* TokenStore.__init__
NewStore == Store(<<>>, 0 - 1, None, None, 0)

\* the outcome of a call: the store afterwards, the value returned, the error raised
Returned(st, value) == [store |-> st, raised |-> "", value |-> value]

Raised(st, error) == [store |-> st, raised |-> error, value |-> None]

\* the tokens range(start, end) that have an entry in the map
MappedIn(map, start, end) == {t \in DOMAIN map : start <= t /\ t < end}

\* the first mapped token of range(t + 1, end + 2), if any
NextMapped(map, t, end) == {n \in DOMAIN map : t + 1 <= n /\ n < end + 2}

\* TokenStore._get_text_for_token_range
GetTextForTokenRange(state, start_token_idx, end_token_idx) ==
    LET map == state.token_to_text_map
        mapped == MappedIn(map, start_token_idx, end_token_idx)
        start_positions == {map[t] : t \in mapped}
        end_positions ==
            {map[SetMin(NextMapped(map, t, end_token_idx))] :
                t \in {u \in mapped : NextMapped(map, u, end_token_idx) # {}}}
        from_map ==
            IF DOMAIN map # {} /\ start_positions # {}
            THEN Slice(state.text, SetMin(start_positions),
                       IF end_positions # {} THEN SetMax(end_positions)
                       ELSE Len(state.text))
            ELSE <<>>
        words == SelectSeq(state.word_timestamps,
                     LAMBDA w : /\ ~IsNone(w.token_idx)
                                /\ start_token_idx <= w.token_idx[1]
                                /\ w.token_idx[1] < end_token_idx)
        from_words ==
            IF from_map = <<>> /\ state.word_timestamps # <<>>
            THEN Join([i \in 1 .. Len(words) |-> words[i].text], <<" ">>)
            ELSE from_map
    IN  IF from_words = <<>>
        THEN <<"[Tokens ", ToString(start_token_idx), "-",
               ToString(end_token_idx), "]">>
        ELSE from_words

\* inpaint that sends a deletion to the generator like any other edit
Inpaint_DeletionGenerates(tokenized_audio, edit_op, gen) ==
    LET tokens == tokenized_audio.rvq_tokens
        inpainted == SliceTo(tokens, edit_op.start_token_idx) \o gen.frames
                         \o SliceFrom(tokens, edit_op.end_token_idx)
    IN  IF ~gen.ok
        THEN [raised |-> TRUE, generated |-> TRUE, tokens |-> <<>>,
              audio |-> ReconstructAudio(<<>>)]
        ELSE [raised |-> FALSE, generated |-> TRUE, tokens |-> inpainted,
              audio |-> ReconstructAudio(inpainted)]

\* IntegratedVoiceInpainting.inpaint; gen is what the generator and the codec
\* produce for the edited text: [ok |-> FALSE] when generation throws
Inpaint(tokenized_audio, edit_op, gen) ==
    LET start_idx == edit_op.start_token_idx
        end_idx == edit_op.end_token_idx
        tokens == tokenized_audio.rvq_tokens
    IN  IF IsBlank(edit_op.edited_text)
        THEN LET inpainted == SliceTo(tokens, start_idx) \o SliceFrom(tokens, end_idx)
             IN  [raised |-> FALSE, generated |-> FALSE, tokens |-> inpainted,
                  audio |-> ReconstructAudio(inpainted)]
        ELSE IF ~gen.ok
        THEN [raised |-> TRUE, generated |-> TRUE, tokens |-> <<>>,
              audio |-> ReconstructAudio(<<>>)]
        ELSE LET inpainted == SliceTo(tokens, start_idx) \o gen.frames
                                  \o SliceFrom(tokens, end_idx)
             IN  [raised |-> FALSE, generated |-> TRUE, tokens |-> inpainted,
                  audio |-> ReconstructAudio(inpainted)]

\* TokenGenerator.generate_replacement_tokens with _prepare_context_segment: a
\* blank edited text returns an array of zero frames without generating.  For
\* any other text the context is prepared first.  Without pre-padding (an
\* index below 0 or an empty prepadding_text) the context text is read from
\* the segments of the audio, which tokenize builds as the one dict
\* {"words": word_timestamps}: segment["start"] raises KeyError before the
\* generator is called.  With pre-padding the text is generated and encoded
\* with mimi.encode(...)[0]: MimiTokenizer.encode returns the array
\* [num_codebooks, seq_len] itself, so [0] is its first row, an array of one
\* dimension, and the log line that reads new_tokens.shape[1] raises IndexError
\* before the return.  No non-blank text returns frames.
GenerateReplacementTokens(tokenized_audio, edit_op, gen) ==
    LET has_prepadding == /\ edit_op.prepadding_start_token_idx >= 0
                          /\ edit_op.prepadding_end_token_idx >= 0
                          /\ edit_op.prepadding_text # <<>>
        segments == <<[words |-> tokenized_audio.word_timestamps]>>
    IN  IF IsBlank(edit_op.edited_text)
        THEN [raised |-> FALSE, generated |-> FALSE, tokens |-> <<>>]
        ELSE IF ~has_prepadding /\ segments # <<>>
                    /\ "start" \notin DOMAIN segments[1]
        THEN \* KeyError from segment["start"]
             [raised |-> TRUE, generated |-> FALSE, tokens |-> <<>>]
        ELSE IF ~gen.ok
        THEN \* the generator throws
             [raised |-> TRUE, generated |-> TRUE, tokens |-> <<>>]
        ELSE \* IndexError from new_tokens.shape[1] on the one-dimensional row
             [raised |-> TRUE, generated |-> TRUE, tokens |-> <<>>]

\* the record of a generated region
GeneratedRegion(placeholder, edit_op) ==
    [placeholder |-> placeholder, original |-> edit_op.original_text,
     edited |-> edit_op.edited_text]

\* TokenStore._apply_edit_operation
ApplyEditOperation(state, edit_op, gen) ==
    LET r == Inpaint(state, edit_op, gen)
        timed == SelectSeq(state.word_timestamps,
                     LAMBDA w : /\ ~IsNone(w.token_idx)
                                /\ edit_op.start_token_idx <= w.token_idx[1]
                                /\ w.token_idx[1] < edit_op.end_token_idx)
    IN  IF r.raised
        THEN [audio |-> state.audio, tokens |-> state.rvq_tokens,
              generated_regions |-> <<>>]
        ELSE [audio |-> r.audio, tokens |-> r.tokens,
              generated_regions |->
                  IF timed # <<>> THEN <<GeneratedRegion(FALSE, edit_op)>>
                  ELSE <<GeneratedRegion(TRUE, edit_op)>>]

\* TokenStore._update_state_from_edit
UpdateStateFromEdit(state, edit_op, modified_audio, modified_tokens) ==
    LET map == state.token_to_text_map
        later == {t \in DOMAIN map : t > edit_op.end_token_idx}
        start_char == map[edit_op.start_token_idx]
        end_char ==
            IF edit_op.end_token_idx \in DOMAIN map THEN map[edit_op.end_token_idx]
            ELSE IF later # {} THEN map[SetMin(later)]
            ELSE Len(state.text)
        text ==
            IF DOMAIN map # {} /\ edit_op.start_token_idx \in DOMAIN map
            THEN SliceTo(state.text, start_char) \o edit_op.edited_text
                     \o SliceFrom(state.text, end_char)
            ELSE state.text
    IN  [state EXCEPT !.audio = modified_audio, !.rvq_tokens = modified_tokens,
                      !.text = text]

\* _save_version_internal without the removal of the future versions
SaveVersionInternal_KeepsFuture(st, label, description, modified_token_indices, generated_regions) ==
    LET version == TokenStoreVersion(st.next_id, label, st.current_state[1],
                       description, modified_token_indices, generated_regions)
        appended == Append(st.versions, version)
    IN  [st EXCEPT !.versions = appended,
                   !.current_version_index = Len(appended) - 1,
                   !.next_id = st.next_id + 1]

\* _save_version_internal that cuts the list before the current version
SaveVersionInternal_DropsCurrent(st, label, description, modified_token_indices, generated_regions) ==
    LET version == TokenStoreVersion(st.next_id, label, st.current_state[1],
                       description, modified_token_indices, generated_regions)
        kept == IF st.current_version_index < Len(st.versions) - 1
                THEN SubSeq(st.versions, 1, st.current_version_index)
                ELSE st.versions
        appended == Append(kept, version)
    IN  [st EXCEPT !.versions = appended,
                   !.current_version_index = Len(appended) - 1,
                   !.next_id = st.next_id + 1]

\* TokenStore._save_version_internal
SaveVersionInternal(st, label, description, modified_token_indices, generated_regions) ==
    LET version == TokenStoreVersion(st.next_id, label, st.current_state[1],
                       description, modified_token_indices, generated_regions)
        kept == IF st.current_version_index < Len(st.versions) - 1
                THEN SubSeq(st.versions, 1, st.current_version_index + 1)
                ELSE st.versions
        appended == Append(kept, version)
    IN  [st EXCEPT !.versions = appended,
                   !.current_version_index = Len(appended) - 1,
                   !.next_id = st.next_id + 1]

\* TokenStore.save_version
SaveVersion(st, label, description, modified_token_indices, generated_regions) ==
    SaveVersionInternal(st, label, description, modified_token_indices,
                        generated_regions)

\* the description of one edit: f"{original_text} → {edited_text}"
Describe(original_text, edited_text) == original_text \o <<" ", "→", " ">> \o edited_text

\* initialize that loads the audio and saves no version
StoreInitialize_NoVersion(st, tokenized) ==
    LET loaded == [st EXCEPT !.original_state = Some(tokenized),
                             !.current_state = Some(tokenized)]
    IN  Returned(loaded, loaded.current_state)

\* TokenStore.initialize; tokenized is what the tokenizer returns for the file
StoreInitialize(st, tokenized) ==
    LET loaded == [st EXCEPT !.original_state = Some(tokenized),
                             !.current_state = Some(tokenized)]
        saved == SaveVersionInternal(loaded, "Original", <<"Original audio">>,
                                     <<>>, <<>>)
    IN  Returned(saved, saved.current_state)

\* TokenStore.initialize_from_blob: the blob goes to a temporary file, then initialize
StoreInitializeFromBlob(st, tokenized) == StoreInitialize(st, tokenized)

\* TokenStore.apply_edit
StoreApplyEdit(st, start_token_idx, end_token_idx, new_text, gen) ==
    IF IsNone(st.current_state) THEN Raised(st, "TokenStore not initialized")
    ELSE
    LET state == st.current_state[1]
        original_text == GetTextForTokenRange(state, start_token_idx, end_token_idx)
        edit_op == EditOperation(original_text, new_text, start_token_idx,
                                 end_token_idx)
        r == ApplyEditOperation(state, edit_op, gen)
        updated == UpdateStateFromEdit(state, edit_op, r.audio, r.tokens)
        saved == SaveVersion([st EXCEPT !.current_state = Some(updated)], "Edit",
                     Describe(original_text, new_text),
                     Range(start_token_idx, end_token_idx), r.generated_regions)
    IN  Returned(saved, saved.current_state)

RECURSIVE SortByStart(_)
\* normalized_ops.sort(key=lambda op: op.start_token_idx), a stable sort: the
\* last operation is inserted into the sorted list of those before it
SortByStart(ops) ==
    LET RECURSIVE InsertByStart(_, _)
        InsertByStart(sorted, op) ==
            IF sorted = <<>> THEN <<op>>
            ELSE IF sorted[Len(sorted)].start_token_idx <= op.start_token_idx
            THEN Append(sorted, op)
            ELSE Append(InsertByStart(SubSeq(sorted, 1, Len(sorted) - 1), op),
                        sorted[Len(sorted)])
    IN  IF ops = <<>> THEN <<>>
        ELSE InsertByStart(SortByStart(SubSeq(ops, 1, Len(ops) - 1)), ops[Len(ops)])

RECURSIVE AppendUnique(_, _)
\* for i in indices: if i not in modified_indices: modified_indices.append(i)
AppendUnique(modified_indices, indices) ==
    IF indices = <<>> THEN modified_indices
    ELSE AppendUnique(
             IF \E j \in 1 .. Len(modified_indices) :
                    modified_indices[j] = Head(indices)
             THEN modified_indices
             ELSE Append(modified_indices, Head(indices)),
             Tail(indices))

\* the operations of apply_edit_operations made EditOperation objects: a dict
\* without original text has it looked up, an EditOperation object is taken as
\* it is.  kind tells which of the two the caller passed
NormalizeOps(state, edit_operations) ==
    [i \in 1 .. Len(edit_operations) |->
        LET op == edit_operations[i]
        IN  IF op.kind = "dict"
            THEN EditOperation(
                     IF op.original_text = <<>>
                     THEN GetTextForTokenRange(state, op.start_token_idx,
                                               op.end_token_idx)
                     ELSE op.original_text,
                     op.edited_text, op.start_token_idx, op.end_token_idx)
            ELSE EditOperation(op.original_text, op.edited_text,
                               op.start_token_idx, op.end_token_idx)]

RECURSIVE ApplyOps(_, _, _, _, _)
\* the loop of apply_edit_operations over the sorted operations
ApplyOps(state, ops, gens, modified_indices, regions) ==
    IF ops = <<>>
    THEN [state |-> state, modified_indices |-> modified_indices,
          regions |-> regions]
    ELSE LET op == Head(ops)
             r == ApplyEditOperation(state, op, Head(gens))
         IN  ApplyOps(UpdateStateFromEdit(state, op, r.audio, r.tokens),
                      Tail(ops), Tail(gens),
                      AppendUnique(modified_indices,
                                   Range(op.start_token_idx, op.end_token_idx)),
                      regions \o r.generated_regions)

RECURSIVE EditOneByOne(_, _, _)
\* every operation applied and saved by an apply_edit of its own
EditOneByOne(st, ops, gens) ==
    IF ops = <<>> THEN st
    ELSE EditOneByOne(
             StoreApplyEdit(st, Head(ops).start_token_idx, Head(ops).end_token_idx,
                            Head(ops).edited_text, Head(gens)).store,
             Tail(ops), Tail(gens))

\* apply_edit_operations that saves a version per operation
StoreApplyEditOperations_VersionPerOp(st, edit_operations, gens) ==
    IF IsNone(st.current_state) THEN Raised(st, "TokenStore not initialized")
    ELSE LET saved == EditOneByOne(st, SortByStart(edit_operations), gens)
         IN  Returned(saved, saved.current_state)

\* TokenStore.apply_edit_operations; gens[i] is the generator's outcome for the
\* i-th operation in processing order
StoreApplyEditOperations(st, edit_operations, gens) ==
    IF IsNone(st.current_state) THEN Raised(st, "TokenStore not initialized")
    ELSE
    LET normalized_ops == SortByStart(NormalizeOps(st.current_state[1],
                                                   edit_operations))
        done == ApplyOps(st.current_state[1], normalized_ops, gens, <<>>, <<>>)
        edit_description ==
            Join([i \in 1 .. Len(normalized_ops) |->
                     Describe(normalized_ops[i].original_text,
                              normalized_ops[i].edited_text)], <<" ", "|", " ">>)
        saved == SaveVersion([st EXCEPT !.current_state = Some(done.state)],
                     "Multi-edit", edit_description, done.modified_indices,
                     done.regions)
    IN  Returned(saved, saved.current_state)

\* restore_version that drops the versions after the restored one
StoreRestoreVersion_Truncating(st, version_index) ==
    IF IsNone(st.current_state) THEN Raised(st, "TokenStore not initialized")
    ELSE IF version_index < 0 \/ version_index >= Len(st.versions)
    THEN Raised(st, "Version index out of range")
    ELSE LET restored ==
                 [st EXCEPT !.versions = SubSeq(st.versions, 1, version_index + 1),
                            !.current_version_index = version_index,
                            !.current_state =
                                Some(st.versions[version_index + 1].token_data)]
         IN  Returned(restored, restored.current_state)

\* restore_version that checks the index against the length only: a negative
\* index counts from the end of the list, as Python's list index does
StoreRestoreVersion_Wrapping(st, version_index) ==
    IF IsNone(st.current_state) THEN Raised(st, "TokenStore not initialized")
    ELSE IF version_index >= Len(st.versions) \/ version_index < 0 - Len(st.versions)
    THEN Raised(st, "Version index out of range")
    ELSE LET index == version_index % Len(st.versions)
             restored ==
                 [st EXCEPT !.current_version_index = index,
                            !.current_state = Some(st.versions[index + 1].token_data)]
         IN  Returned(restored, restored.current_state)

\* TokenStore.restore_version(version_index=...)
StoreRestoreVersion(st, version_index) ==
    IF IsNone(st.current_state) THEN Raised(st, "TokenStore not initialized")
    ELSE IF version_index < 0 \/ version_index >= Len(st.versions)
    THEN Raised(st, "Version index out of range")
    ELSE LET restored ==
                 [st EXCEPT !.current_version_index = version_index,
                            !.current_state =
                                Some(st.versions[version_index + 1].token_data)]
         IN  Returned(restored, restored.current_state)

-----------------------------------------------------------------------------
(* TokenFusion.  A token array is the sequence of its codebook rows, each a *)
(* sequence of frames: tokens[cb, i] of the source is tokens[cb+1][i+1].   *)
(* The random draws of the blending steps are modelled by the set of all   *)
(* arrays the call can return.                                             *)

\* tokens.shape[0]
NumCodebooksOf(tokens) == Len(tokens)

\* tokens.shape[1]
NumFramesOf(tokens) == Len(tokens[1])

\* tokens[cb, i]
At(tokens, cb, i) == tokens[cb + 1][i + 1]

\* tokens[:, a:b]
Columns(tokens, a, b) == [r \in 1 .. Len(tokens) |-> Slice(tokens[r], a, b)]

\* torch.zeros((num_codebooks, n))
Zeros(num_codebooks, n) == [r \in 1 .. num_codebooks |-> [i \in 1 .. n |-> 0]]

\* tokens[:, at:at+k] = block, for a block of k columns that fits
AssignColumns(tokens, at, block) ==
    [r \in 1 .. Len(tokens) |->
        SliceTo(tokens[r], at) \o block[r]
            \o SliceFrom(tokens[r], at + Len(block[r]))]

\* tokens[cb, i] = value
AssignCell(tokens, cb, i, value) ==
    [tokens EXCEPT ![cb + 1] = [@ EXCEPT ![i + 1] = value]]

\* FusionConfig; transition_codebooks defaults to list(range(1, 32))
FusionConfig(method, crossfade_frames, use_semantic_preservation, transition_codebooks) ==
    [method |-> method, crossfade_frames |-> crossfade_frames,
     use_semantic_preservation |-> use_semantic_preservation,
     transition_codebooks |-> transition_codebooks]

\* the codebooks a transition may write
BlendRegion(config) ==
    IF ~config.use_semantic_preservation THEN config.transition_codebooks
    ELSE SelectSeq(config.transition_codebooks, LAMBDA cb : cb > 0)

\* one possible write of a blending loop: the cell and the values a draw can
\* put there; no values when the code skips the cell or the draw cannot pass
BlendStep(cb, pos, values) == [cb |-> cb, pos |-> pos, values |-> values]

\* the (outer, inner) pairs of two nested loops, in the order they run
Nested(outer, inner) ==
    [k \in 1 .. Len(outer) * Len(inner) |->
        <<outer[((k - 1) \div Len(inner)) + 1], inner[((k - 1) % Len(inner)) + 1]>>]

\* torch.rand(1).item() > num/den can be true: the draw is below 1
DrawCanExceed(num, den) == num < den

\* left loop of _apply_linear_fusion
LinearLeftSteps(fused_len, num_codebooks, original_tokens, start_idx, config) ==
    LET cf == config.crossfade_frames
        loops == Nested(Range(0, cf), BlendRegion(config))
    IN  IF start_idx >= cf
        THEN [k \in 1 .. Len(loops) |->
                LET i == loops[k][1]
                    cb == loops[k][2]
                    blend_idx == start_idx - cf + i
                    orig_idx == Min(blend_idx, NumFramesOf(original_tokens) - 1)
                IN  BlendStep(cb, blend_idx,
                        IF /\ ~(blend_idx < 0 \/ blend_idx >= fused_len)
                           /\ cb < num_codebooks
                           /\ DrawCanExceed(i, cf)
                           /\ orig_idx >= 0
                        THEN {At(original_tokens, cb, orig_idx)} ELSE {})]
        ELSE <<>>

\* right loop of _apply_linear_fusion
LinearRightSteps(fused_len, num_codebooks, original_tokens, gen_len, start_idx, end_idx, config) ==
    LET cf == config.crossfade_frames
        loops == Nested(Range(0, cf), BlendRegion(config))
        right_start == start_idx + gen_len - cf
    IN  IF right_start >= 0 /\ end_idx < NumFramesOf(original_tokens)
        THEN [k \in 1 .. Len(loops) |->
                LET i == loops[k][1]
                    cb == loops[k][2]
                    blend_idx == right_start + i
                    orig_idx == Min(end_idx - cf + i,
                                    NumFramesOf(original_tokens) - 1)
                IN  BlendStep(cb, blend_idx,
                        IF /\ ~(blend_idx < 0 \/ blend_idx >= fused_len)
                           /\ cb < num_codebooks
                           /\ DrawCanExceed(cf - i, cf)
                           /\ orig_idx >= 0
                        THEN {At(original_tokens, cb, orig_idx)} ELSE {})]
        ELSE <<>>

\* left loop of _apply_crossfade_fusion
CrossfadeLeftSteps(fused_len, num_codebooks, original_tokens, start_idx, config) ==
    LET cf == config.crossfade_frames
        left_start == Max(0, start_idx - cf)
        loops == Nested(BlendRegion(config), Range(0, start_idx - left_start))
    IN  IF start_idx > 0 /\ left_start < start_idx
        THEN [k \in 1 .. Len(loops) |->
                LET cb == loops[k][1]
                    i == loops[k][2]
                    pos == left_start + i
                IN  BlendStep(cb, pos,
                        IF /\ cb < num_codebooks
                           /\ DrawCanExceed(i, start_idx - left_start)
                           /\ pos < fused_len
                           /\ pos < NumFramesOf(original_tokens)
                        THEN {At(original_tokens, cb, pos)} ELSE {})]
        ELSE <<>>

\* right loop of _apply_crossfade_fusion
CrossfadeRightSteps(fused_len, num_codebooks, original_tokens, gen_len, start_idx, end_idx, config) ==
    LET cf == config.crossfade_frames
        right_start == start_idx + gen_len
        right_end == Min(right_start + cf, fused_len)
        span == Min(cf, right_end - right_start)
        loops == Nested(BlendRegion(config), Range(0, right_end - right_start))
    IN  IF right_start < fused_len /\ end_idx < NumFramesOf(original_tokens)
        THEN [k \in 1 .. Len(loops) |->
                LET cb == loops[k][1]
                    i == loops[k][2]
                    pos == right_start + i
                    right_orig_idx == Min(end_idx + i,
                                          NumFramesOf(original_tokens) - 1)
                IN  BlendStep(cb, pos,
                        IF /\ cb < num_codebooks
                           /\ DrawCanExceed(span - i, span)
                           /\ right_orig_idx >= 0
                           /\ pos < fused_len
                        THEN {At(original_tokens, cb, right_orig_idx)} ELSE {})]
        ELSE <<>>

\* get_token_stats: the tokens of one codebook of a context, each with a
\* positive count, so each can be sampled
TokenChoices(context, cb) ==
    {context[cb + 1][i] : i \in 1 .. Len(context[cb + 1])}

\* left loop of _apply_contextual_fusion; (i/cf) ** decay_factor is below 1
\* exactly when i/cf is
ContextualLeftSteps(fused_len, num_codebooks, original_tokens, start_idx, config) ==
    LET cf == config.crossfade_frames
        context_size == 2 * cf
        left_start == Max(0, start_idx - context_size)
        left_context == Columns(original_tokens, left_start, start_idx)
        loops == Nested(BlendRegion(config), Range(0, cf))
    IN  IF start_idx >= cf /\ NumFramesOf(left_context) # 0
        THEN [k \in 1 .. Len(loops) |->
                LET cb == loops[k][1]
                    i == loops[k][2]
                    blend_idx == start_idx - cf + i
                IN  BlendStep(cb, blend_idx,
                        IF /\ cb < num_codebooks
                           /\ blend_idx >= 0 /\ blend_idx < fused_len
                           /\ DrawCanExceed(i, cf)
                        THEN TokenChoices(left_context, cb) ELSE {})]
        ELSE <<>>

\* right loop of _apply_contextual_fusion
ContextualRightSteps(fused_len, num_codebooks, original_tokens, gen_len, start_idx, end_idx, config) ==
    LET cf == config.crossfade_frames
        context_size == 2 * cf
        right_end == Min(NumFramesOf(original_tokens), end_idx + context_size)
        right_context == Columns(original_tokens, end_idx, right_end)
        right_start == start_idx + gen_len
        loops == Nested(BlendRegion(config), Range(0, cf))
    IN  IF right_start < fused_len /\ NumFramesOf(right_context) # 0
        THEN [k \in 1 .. Len(loops) |->
                LET cb == loops[k][1]
                    i == loops[k][2]
                    blend_idx == right_start + i
                IN  BlendStep(cb, blend_idx,
                        IF /\ cb < num_codebooks
                           /\ ~(right_start + i >= fused_len)
                           /\ DrawCanExceed(cf - i, cf)
                        THEN TokenChoices(right_context, cb) ELSE {})]
        ELSE <<>>

RECURSIVE BlendAll(_, _)
\* the arrays a list of writing steps can leave, from the arrays in `fused`:
\* each step keeps the cell or writes one of its values
BlendAll(fused, steps) ==
    IF steps = <<>> THEN fused
    ELSE LET step == Head(steps)
         IN  BlendAll(
                 fused \cup {AssignCell(t, step.cb, step.pos, v) :
                                 t \in fused, v \in step.values},
                 Tail(steps))

\* the arrays the blending loops can leave: the steps that skip their cell
\* write nothing, the others run in the order of the loops
BlendOutcomes(fused, steps) ==
    BlendAll(fused, SelectSeq(steps, LAMBDA step : step.values # {}))

\* the insertion of the generated tokens that opens _apply_contextual_fusion
ContextualInsert(fused_tokens, generated_tokens, start_idx) ==
    LET gen_len == NumFramesOf(generated_tokens)
        fused_len == NumFramesOf(fused_tokens)
        start_pos == Max(0, start_idx)
        end_pos == Min(fused_len, start_idx + gen_len)
    IN  IF start_idx < 0 \/ start_idx + gen_len > fused_len
        THEN IF end_pos > start_pos
             THEN AssignColumns(fused_tokens, start_pos,
                      Columns(generated_tokens, 0, end_pos - start_pos))
             ELSE fused_tokens
        ELSE AssignColumns(fused_tokens, start_idx, generated_tokens)

\* the blending steps of the configured method, in the order the code runs them
TransitionSteps(fused_len, num_codebooks, original_tokens, gen_len, start_idx, end_idx, config) ==
    IF config.method = "linear"
    THEN LinearLeftSteps(fused_len, num_codebooks, original_tokens, start_idx,
                         config)
         \o LinearRightSteps(fused_len, num_codebooks, original_tokens, gen_len,
                             start_idx, end_idx, config)
    ELSE IF config.method = "crossfade"
    THEN CrossfadeLeftSteps(fused_len, num_codebooks, original_tokens, start_idx,
                            config)
         \o CrossfadeRightSteps(fused_len, num_codebooks, original_tokens,
                                gen_len, start_idx, end_idx, config)
    ELSE IF config.method = "contextual"
    THEN ContextualLeftSteps(fused_len, num_codebooks, original_tokens,
                             start_idx, config)
         \o ContextualRightSteps(fused_len, num_codebooks, original_tokens,
                                 gen_len, start_idx, end_idx, config)
    ELSE <<>>

\* the validation that opens fuse_tokens: the range it goes on with
ClampedRange(orig_len, edit_range) ==
    LET start_idx == IF edit_range[1] >= orig_len
                     THEN Min(edit_range[1], orig_len - 1) ELSE edit_range[1]
        end_idx == IF edit_range[2] > orig_len
                   THEN Min(edit_range[2], orig_len) ELSE edit_range[2]
    IN  <<start_idx, end_idx>>

\* TokenFusion.fuse_tokens: every outcome the call can have, an error raised or
\* an array returned.  torch.zeros raises RuntimeError for a negative number of
\* frames, the assignment of the generated frames raises RuntimeError when the
\* slice it writes to has another width (a slice is counted as Python counts
\* it, a negative index from the end; one column is broadcast), and the
\* validation that closes the call takes torch.max of the fused array, which
\* raises RuntimeError when the array has no frames.  An original array
\* without frames clamps start_idx to -1, and every such call raises
FuseTokens(original_tokens, generated_tokens, edit_range, config) ==
    IF edit_range[1] < 0 \/ edit_range[2] < edit_range[1]
    THEN {[raised |-> "ValueError", tokens |-> <<>>]}
    ELSE
    LET num_codebooks == NumCodebooksOf(original_tokens)
        orig_len == NumFramesOf(original_tokens)
        gen_len == NumFramesOf(generated_tokens)
        start_idx == ClampedRange(orig_len, edit_range)[1]
        end_idx == ClampedRange(orig_len, edit_range)[2]
        edit_len == IF end_idx - start_idx <= 0 THEN 0 ELSE end_idx - start_idx
        fused_len == orig_len - edit_len + gen_len
        from(i) == IF i < 0 THEN Max(i + fused_len, 0) ELSE Min(i, fused_len)
        middle_section == Max(from(start_idx + gen_len) - from(start_idx), 0)
        empty == Zeros(num_codebooks, fused_len)
        before == IF start_idx > 0
                  THEN AssignColumns(empty, 0,
                                     Columns(original_tokens, 0, start_idx))
                  ELSE empty
        middle == IF gen_len > 0
                  THEN AssignColumns(before, start_idx, generated_tokens)
                  ELSE before
        after_section_start == start_idx + gen_len
        after == IF after_section_start < fused_len /\ end_idx < orig_len
                 THEN AssignColumns(middle, after_section_start,
                          Columns(original_tokens, end_idx, orig_len))
                 ELSE middle
        inserted == IF config.method = "contextual"
                    THEN ContextualInsert(after, generated_tokens, start_idx)
                    ELSE IF config.method \in {"linear", "crossfade"}
                    THEN AssignColumns(after, start_idx, generated_tokens)
                    ELSE after
        steps == TransitionSteps(fused_len, num_codebooks, original_tokens,
                                 gen_len, start_idx, end_idx, config)
    IN  IF fused_len < 0
        THEN \* torch.zeros of a negative dimension raises
             {[raised |-> "RuntimeError", tokens |-> <<>>]}
        ELSE IF gen_len > 1 /\ middle_section # gen_len
        THEN \* the generated frames do not fit the slice they are assigned to
             {[raised |-> "RuntimeError", tokens |-> <<>>]}
        ELSE IF fused_len = 0
        THEN \* torch.max of an array without elements raises
             {[raised |-> "RuntimeError", tokens |-> <<>>]}
        ELSE {[raised |-> "", tokens |-> t] : t \in BlendOutcomes({inserted}, steps)}

-----------------------------------------------------------------------------
(* SessionManager: every request takes the manager's lock, looks the store *)
(* of its session up, calls the store and answers with the session state   *)
(* or raises.  TokenStore defines none of undo, redo, can_undo and         *)
(* can_redo, which the manager calls: such a call raises AttributeError.   *)

\* the id of the session, TokenStore.get_session_id() of its store
SessionId == "session"

\* get_token_store_by_id(session_id) at the head of a handler, with registry
\* the ids that are registered: the handler goes on to r, what it does with
\* the store st of a registered session, and raises ValueError for any other id
LookedUp(registry, st, r) ==
    IF SessionId \in registry THEN r ELSE Raised(st, "Session not found")

\* SessionManager.get_session_state of a session that is registered: building
\* the state calls token_store.can_undo(), which raises AttributeError
GetSessionState(st) ==
    IF IsNone(st.current_state) THEN Raised(st, "Session has no current state")
    ELSE Raised(st, "AttributeError")

\* SessionManager.apply_edit, apply_multiple_edits, restore_version after the
\* call of the store: the store's error is raised again, otherwise the handler
\* goes on to get_session_state
AnswerWithState(r) == IF r.raised # "" THEN r ELSE GetSessionState(r.store)

\* SessionManager.undo: token_store.undo() raises AttributeError, the store
\* is as it was
SessionUndo(st) == Raised(st, "AttributeError")

\* SessionManager.redo: token_store.redo() raises AttributeError, the store
\* is as it was
SessionRedo(st) == Raised(st, "AttributeError")

-----------------------------------------------------------------------------
(* Inputs of the requests.                                                 *)

\* texts a caller sends as the replacement: a deletion and a word
NewTexts == {<<>>, <<"h","i">>}

\* what generation gives for one edit: it throws, or new frames come back
GenOutcomes ==
    {[ok |-> FALSE, frames |-> <<>>], [ok |-> TRUE, frames |-> <<91, 92>>]}

\* the token ranges a caller sends: a mapped word, a word whose end is past the
\* map, an insertion point outside the map
EditRanges == {<<1, 2>>, <<2, 3>>, <<3, 3>>}

\* the operation lists a caller sends to apply_edit_operations: lists of dicts,
\* and a list of EditOperation objects
EditOperationLists ==
    LET hello(kind) == [kind |-> kind, original_text |-> <<"h","e","l","l","o">>,
                        edited_text |-> <<"h","i">>,
                        start_token_idx |-> 0, end_token_idx |-> 1]
        world(kind) == [kind |-> kind, original_text |-> <<>>,
                        edited_text |-> <<"y">>,
                        start_token_idx |-> 1, end_token_idx |-> 2]
        test(kind) == [kind |-> kind, original_text |-> <<>>, edited_text |-> <<>>,
                       start_token_idx |-> 2, end_token_idx |-> 3]
    IN  {<<hello("dict")>>, <<world("dict"), hello("dict")>>,
         <<hello("dict"), test("dict")>>,
         <<world("EditOperation"), hello("EditOperation")>>}

\* the store the variables hold
TheStore ==
    Store(versions, current_version_index, current_state, original_state, next_id)

\* the variables take the store a call leaves behind
StoreBecomes(st) ==
    /\ versions' = st.versions
    /\ current_version_index' = st.current_version_index
    /\ current_state' = st.current_state
    /\ original_state' = st.original_state
    /\ next_id' = st.next_id

\* the record of a finished call of the store: the call, its outcome, where the pointer and
\* the version count stood when it came in, whether generation threw during it,
\* the number of edits and the last replacement text it carried, the version asked for
Response(op, r, gen_failed, edits, target) ==
    [op |-> op, raised |-> r.raised, value |-> r.value,
     before_index |-> current_version_index, before_count |-> Len(versions),
     gen_failed |-> gen_failed, edits |-> Len(edits),
     new_text |-> IF edits = <<>> THEN <<>> ELSE edits[Len(edits)][3],
     target |-> target]

\* the edits of a request, as (start, end, new text) triples
EditsOf(ops) ==
    [i \in 1 .. Len(ops) |->
        <<ops[i].start_token_idx, ops[i].end_token_idx, ops[i].edited_text>>]

\* generation is invoked for some operation of the list and throws
SomeGenFails(st, ops, gens) ==
    LET sorted == SortByStart(ops)
    IN  /\ ~IsNone(st.current_state)
        /\ \E i \in 1 .. Len(sorted) :
               ~IsBlank(sorted[i].edited_text) /\ ~gens[i].ok

-----------------------------------------------------------------------------
(* The session: one action per request.  A new manager has no session;     *)
(* create_session makes the store, initializes it and registers it.  A     *)
(* handler looks the store up in the registry and calls it, the response   *)
(* records the outcome, and the caller is answered with get_session_state  *)
(* or an error.                                                            *)

\* the record of a finished request with what its handler answered
Answered(resp, answer) ==
    resp @@ [answer |-> [raised |-> answer.raised, value |-> answer.value]]

Init ==
    /\ versions = NewStore.versions
    /\ current_version_index = NewStore.current_version_index
    /\ current_state = NewStore.current_state
    /\ original_state = NewStore.original_state
    /\ next_id = NewStore.next_id
    /\ response = [op |-> "new", raised |-> "", value |-> None,
                   before_index |-> 0 - 1, before_count |-> 0,
                   gen_failed |-> FALSE, edits |-> 0, new_text |-> <<>>,
                   target |-> 0]
    /\ f_in = <<>>
    /\ f_out = <<>>
    /\ lock = [owner |-> None, count |-> 0]
    /\ threads = <<>>
    /\ sessions = {}

\* SessionManager.create_session: TokenStore.initialize_from_blob on a new
\* store, then register_token_store and the entry in SessionManager.sessions;
\* the session id is the answer.  An error of the store is raised again and
\* nothing is registered
CreateSession ==
    /\ IsNone(current_state)
    /\ \E tokenized \in TokenizeResults :
        LET r == StoreInitializeFromBlob(TheStore, tokenized)
        IN  /\ StoreBecomes(r.store)
            /\ sessions' = IF r.raised = "" THEN sessions \cup {SessionId}
                           ELSE sessions
            /\ response' = Answered(Response("create_session", r, FALSE, <<>>, 0),
                                    IF r.raised = "" THEN Returned(r.store, Some(SessionId))
                                    ELSE r)
    /\ UNCHANGED <<fusionVars, lock, threads>>

\* SessionManager.apply_edit: token_store.apply_edit(...), then the answer
ApplyEdit ==
    /\ next_id < MaxSaves
    /\ \E range \in EditRanges, new_text \in NewTexts, gen \in GenOutcomes :
        LET r == LookedUp(sessions, TheStore,
                          StoreApplyEdit(TheStore, range[1], range[2], new_text, gen))
        IN  /\ StoreBecomes(r.store)
            /\ response' = Answered(Response("apply_edit", r,
                                        SessionId \in sessions
                                        /\ SomeGenFails(TheStore,
                                            <<EditOperation(<<>>, new_text, range[1],
                                                            range[2])>>, <<gen>>),
                                        <<<<range[1], range[2], new_text>>>>, 0),
                                    AnswerWithState(r))
    /\ UNCHANGED <<fusionVars, threadVars>>

\* SessionManager.apply_multiple_edits: token_store.apply_edit_operations(...),
\* then the answer
ApplyEditOperations ==
    /\ next_id < MaxSaves
    /\ \E ops \in EditOperationLists :
       \E gens \in [1 .. Len(ops) -> GenOutcomes] :
        LET r == LookedUp(sessions, TheStore,
                          StoreApplyEditOperations(TheStore, ops, gens))
        IN  /\ StoreBecomes(r.store)
            /\ response' = Answered(Response("apply_edit_operations", r,
                                        SessionId \in sessions
                                        /\ SomeGenFails(TheStore, ops, gens),
                                        EditsOf(ops), 0),
                                    AnswerWithState(r))
    /\ UNCHANGED <<fusionVars, threadVars>>

\* SessionManager.undo
Undo ==
    /\ LET r == LookedUp(sessions, TheStore, SessionUndo(TheStore))
       IN  /\ StoreBecomes(r.store)
           /\ response' = Answered(Response("undo", r, FALSE, <<>>, 0), r)
    /\ UNCHANGED <<fusionVars, threadVars>>

\* SessionManager.redo
Redo ==
    /\ LET r == LookedUp(sessions, TheStore, SessionRedo(TheStore))
       IN  /\ StoreBecomes(r.store)
           /\ response' = Answered(Response("redo", r, FALSE, <<>>, 0), r)
    /\ UNCHANGED <<fusionVars, threadVars>>

\* SessionManager.restore_version: token_store.restore_version(version_index=...),
\* then the answer
RestoreVersion ==
    /\ \E version_index \in (0 - 1) .. MaxSaves :
        LET r == LookedUp(sessions, TheStore,
                          StoreRestoreVersion(TheStore, version_index))
        IN  /\ StoreBecomes(r.store)
            /\ response' = Answered(Response("restore_version", r, FALSE, <<>>,
                                             version_index),
                                    AnswerWithState(r))
    /\ UNCHANGED <<fusionVars, threadVars>>

Next ==
    \/ CreateSession
    \/ ApplyEdit
    \/ ApplyEditOperations
    \/ Undo
    \/ Redo
    \/ RestoreVersion

Spec == Init /\ [][Next]_vars

-----------------------------------------------------------------------------
(* AudioTokenizer: the maps between text offsets, words and frames.  A     *)
(* word timestamp holds its text and its start and end times; the model    *)
(* counts time in sixteenths of a second, which Python's floats hold       *)
(* exactly, so that start * 12.5 is the fraction 25 * start / 32.          *)

\* token_frame_rate = 12.5 frames per second, as frames per sixteenth of a second
TokenFrameRate == [num |-> 25, den |-> 32]

\* round(num / den) for num >= 0: Python rounds a tie to the even neighbour
RoundHalfEven(num, den) ==
    LET q == num \div den
        r == num % den
    IN  IF 2 * r < den THEN q
        ELSE IF 2 * r > den THEN q + 1
        ELSE IF q % 2 = 0 THEN q ELSE q + 1

\* round(time * token_frame_rate)
FrameOfTime(time) == RoundHalfEven(TokenFrameRate.num * time, TokenFrameRate.den)

\* min(max(0, index), last)
Clamp(index, last) == Min(Max(0, index), last)

\* s.find(sub): the first offset at which sub occurs in s, -1 if none
StrFind(s, sub) ==
    LET hits == {i \in 0 .. Len(s) - Len(sub) : SubSeq(s, i + 1, i + Len(sub)) = sub}
    IN  IF hits = {} THEN 0 - 1 ELSE SetMin(hits)

\* the frame of character i of a word that spans start_token_idx..end_token_idx:
\* int(start + (i / word_len) * (end - start)), computed as the code computes
\* it, in IEEE double precision with round-to-nearest-even.  With d = end -
\* start, the result is the floor of start + i * d / word_len unless i * d is
\* a multiple of word_len: then the exact value is the integer start + q, and
\* the result is one less when the three roundings leave the sum below it.
\*   i / word_len   has the mantissa round(i * 2^(52 + t) / word_len), where
\*                  2^-t <= i / word_len < 2^(1 - t); it is rounded down when
\*                  the remainder rho of that division is in 0 < rho < word_len / 2;
\*   ... * d        is then q - rho * d / (word_len * 2^(52 + t)), which rounds
\*                  to the double below q when it is more than half the gap
\*                  below q away from q;
\*   start + ...    is then start + q less that gap, which stays below
\*                  start + q when the gap below start + q is no larger.
\* Gaps are written as exponents of two, relative to 2^-52.
InterpolatedToken(i, word_len, start_token_idx, end_token_idx) ==
    LET d == end_token_idx - start_token_idx
        q == (i * d) \div word_len
        RECURSIVE FloorLog2(_), Shift(_)
        FloorLog2(n) == IF n < 2 THEN 0 ELSE 1 + FloorLog2(n \div 2)
        IsPowerOfTwo(n) == 2 ^ FloorLog2(n) = n
        \* the least t >= from with i * 2^t >= word_len
        Shift(from) == IF i * (2 ^ from) >= word_len THEN from ELSE Shift(from + 1)
        t == Shift(1)
        \* (r * 2^13) mod word_len; 2^52 is 2^13 four times over
        Shifted13(r) == (r * 8192) % word_len
        \* (i * 2^(52 + t)) mod word_len
        rho == (Shifted13(Shifted13(Shifted13(Shifted13(i % word_len)))) * (2 ^ t))
                   % word_len
        \* the gap below n
        GapBelow(n) == IF IsPowerOfTwo(n) THEN FloorLog2(n) - 1 ELSE FloorLog2(n)
        product_below_q == 2 * rho * d > word_len * (2 ^ (t + GapBelow(q)))
        sum_below == GapBelow(q) >= GapBelow(start_token_idx + q)
    IN  IF ~(end_token_idx > start_token_idx) THEN start_token_idx
        ELSE IF i = 0 \/ (i * d) % word_len # 0 THEN start_token_idx + q
        ELSE IF rho = 0 \/ 2 * rho > word_len THEN start_token_idx + q
        ELSE IF product_below_q /\ sum_below THEN start_token_idx + q - 1
        ELSE start_token_idx + q

RECURSIVE AlignWords(_, _, _, _)
\* the loop of _align_text_to_tokens over the words that are left; acc holds
\* text_pos and the two maps; token_to_text_keys is list(token_to_text_map),
\* the keys of the dict in the order of their first insertion.  The tokens of
\* the characters of one word do not decrease, so the new keys of a word are
\* inserted in ascending order
AlignWords(text, words, num_frames, acc) ==
    IF words = <<>> THEN acc
    ELSE
    LET word == Head(words).text
        word_len == Len(word)
        start_token_idx == Clamp(FrameOfTime(Head(words).start), num_frames - 1)
        end_token_idx == Clamp(FrameOfTime(Head(words).end), num_frames - 1)
        found == StrFind(SliceFrom(text, acc.text_pos), word)
        word_pos == found + acc.text_pos
        token_pos(i) == InterpolatedToken(i, word_len, start_token_idx, end_token_idx)
        chars == [c \in word_pos .. word_pos + word_len - 1 |-> token_pos(c - word_pos)]
        tokens == [t \in {token_pos(i) : i \in 0 .. word_len - 1} |->
                      SetMax({word_pos + i : i \in {j \in 0 .. word_len - 1 :
                                                        token_pos(j) = t}})]
        inserted == DOMAIN tokens \ DOMAIN acc.token_to_text_map
        new_keys == [k \in 1 .. Cardinality(inserted) |->
                        CHOOSE t \in inserted :
                            Cardinality({u \in inserted : u < t}) = k - 1]
    IN  IF found >= 0
        THEN AlignWords(text, Tail(words), num_frames,
                 [text_pos |-> word_pos + word_len,
                  text_to_token_map |-> chars @@ acc.text_to_token_map,
                  token_to_text_map |-> tokens @@ acc.token_to_text_map,
                  token_to_text_keys |-> acc.token_to_text_keys \o new_keys])
        ELSE AlignWords(text, Tail(words), num_frames, acc)

\* AudioTokenizer._align_text_to_tokens
AlignTextToTokens(text, word_timestamps, num_frames) ==
    AlignWords(text, word_timestamps, num_frames,
               [text_pos |-> 0, text_to_token_map |-> <<>>,
                token_to_text_map |-> <<>>, token_to_text_keys |-> <<>>])

RECURSIVE SemanticWords(_, _, _)
\* the loop of _create_semantic_text_token_map; acc holds text_pos, token_idx
\* and the two maps, with the keys of token_to_text_map in the order of their
\* insertion
SemanticWords(text, words, acc) ==
    IF words = <<>> THEN acc
    ELSE
    LET word == Head(words).text
        word_len == Len(word)
        found == StrFind(SliceFrom(text, acc.text_pos), word)
        word_pos == found + acc.text_pos
        chars == [c \in word_pos .. word_pos + word_len - 1 |-> acc.token_idx]
        tokens == IF word_len = 0 THEN <<>>
                  ELSE (acc.token_idx :> (word_pos + word_len - 1))
    IN  IF found >= 0
        THEN SemanticWords(text, Tail(words),
                 [text_pos |-> word_pos + word_len,
                  token_idx |-> acc.token_idx + 1,
                  text_to_token_map |-> chars @@ acc.text_to_token_map,
                  token_to_text_map |-> tokens @@ acc.token_to_text_map,
                  token_to_text_keys |->
                      acc.token_to_text_keys
                          \o (IF word_len = 0 THEN <<>> ELSE <<acc.token_idx>>)])
        ELSE SemanticWords(text, Tail(words), acc)

\* AudioTokenizer._create_semantic_text_token_map
CreateSemanticTextTokenMap(text, word_timestamps) ==
    SemanticWords(text, word_timestamps,
                  [text_pos |-> 0, token_idx |-> 0,
                   text_to_token_map |-> <<>>, token_to_text_map |-> <<>>,
                   token_to_text_keys |-> <<>>])

\* AudioTokenizer.create_semantic_to_rvq_mapping; num_frames is None when no
\* rvq_tokens are given
CreateSemanticToRvqMapping(word_timestamps, num_frames) ==
    [i \in 0 .. Len(word_timestamps) - 1 |->
        LET rvq_index == FrameOfTime(word_timestamps[i + 1].start)
        IN  IF IsNone(num_frames) THEN rvq_index
            ELSE Clamp(rvq_index, num_frames[1] - 1)]

\* AudioTokenizer.tokenize of an audio of num_frames frames that the speech
\* recogniser transcribes as transcription (its text and its word chunks)
Tokenize(transcription, num_frames, semantic_only) ==
    LET word_timestamps == transcription.chunks
        rvq_tokens == IF semantic_only THEN None ELSE Range(1, num_frames + 1)
        maps == IF semantic_only
                THEN CreateSemanticTextTokenMap(transcription.text, word_timestamps)
                ELSE AlignTextToTokens(transcription.text, word_timestamps, num_frames)
    IN  [audio |-> [kind |-> "file", of |-> Range(1, num_frames + 1)],
         rvq_tokens |-> rvq_tokens,
         text |-> transcription.text,
         word_timestamps |-> word_timestamps,
         text_to_token_map |-> maps.text_to_token_map,
         token_to_text_map |-> maps.token_to_text_map,
         token_to_text_keys |-> maps.token_to_text_keys,
         semantic_to_rvq_map |->
             CreateSemanticToRvqMapping(word_timestamps,
                 IF semantic_only THEN None ELSE Some(num_frames))]

\* find_token_range whose end offset past every key falls back to the earliest key
FindTokenRange_EndFallsBackToEarliest(tokenized_audio, text_range) ==
    LET map == tokenized_audio.text_to_token_map
        keys == DOMAIN map
        start_char_idx == text_range[1]
        end_char_idx == text_range[2]
        before == {pos \in keys : pos <= start_char_idx}
        after == {pos \in keys : pos >= end_char_idx}
        start_token_idx ==
            IF start_char_idx \in keys THEN map[start_char_idx]
            ELSE IF before # {} THEN map[SetMax(before)]
            ELSE map[SetMin(keys)]
        end_token_idx ==
            IF end_char_idx \in keys THEN map[end_char_idx]
            ELSE IF after # {} THEN map[SetMin(after)]
            ELSE map[SetMin(keys)]
    IN  IF keys = {}
        THEN [raised |-> "ValueError", value |-> None]
        ELSE [raised |-> "", value |-> Some(<<start_token_idx, end_token_idx>>)]

\* AudioTokenizer.find_token_range: min() and max() of no keys raise ValueError
FindTokenRange(tokenized_audio, text_range) ==
    LET map == tokenized_audio.text_to_token_map
        keys == DOMAIN map
        start_char_idx == text_range[1]
        end_char_idx == text_range[2]
        before == {pos \in keys : pos <= start_char_idx}
        after == {pos \in keys : pos >= end_char_idx}
        start_token_idx ==
            IF start_char_idx \in keys THEN map[start_char_idx]
            ELSE IF before # {} THEN map[SetMax(before)]
            ELSE map[SetMin(keys)]
        end_token_idx ==
            IF end_char_idx \in keys THEN map[end_char_idx]
            ELSE IF after # {} THEN map[SetMin(after)]
            ELSE map[SetMax(keys)]
    IN  IF keys = {}
        THEN [raised |-> "ValueError", value |-> None]
        ELSE [raised |-> "", value |-> Some(<<start_token_idx, end_token_idx>>)]

-----------------------------------------------------------------------------
(* SemanticEditor: from the substring the language model proposes to the   *)
(* edit operation on token indices.                                        *)

\* s.rfind(sub): the last offset at which sub occurs in s, -1 if none
StrRFind(s, sub) ==
    LET hits == {i \in 0 .. Len(s) - Len(sub) : SubSeq(s, i + 1, i + Len(sub)) = sub}
    IN  IF hits = {} THEN 0 - 1 ELSE SetMax(hits)

\* SemanticEditor.find_prepadding_context: the text and its first offset
FindPrepaddingContext(text, edit_start_char_idx) ==
    LET text_before == Strip(SliceTo(text, edit_start_char_idx))
        sentence_boundaries == {<<".", " ">>, <<"?", " ">>, <<"!", " ">>, <<"\n">>}
        last_boundary_idx ==
            SetMax({0 - 1} \cup {StrRFind(text_before, b) : b \in sentence_boundaries})
        two == Slice(text_before, last_boundary_idx, last_boundary_idx + 2)
        kept == {i \in 1 .. Len(two) : ~IsSpace(two[i])}
        rstripped == IF kept = {} THEN <<>> ELSE SubSeq(two, 1, SetMax(kept))
        boundary_length == IF rstripped \in sentence_boundaries THEN 2 ELSE 1
        prepadding_start_idx == last_boundary_idx + boundary_length
        words == SplitWords(text_before)
        first_word == words[Len(words) - 4]
        spaced == StrRFind(text_before, <<" ">> \o first_word \o <<" ">>)
        bare == StrRFind(text_before, first_word)
        found == IF spaced # 0 - 1 THEN spaced ELSE bare
        context_start_idx == IF text_before[found + 1] = " " THEN found + 1 ELSE found
    IN  IF text_before = <<>> THEN <<<<>>, 0>>
        ELSE IF last_boundary_idx # 0 - 1
        THEN <<SliceFrom(text_before, prepadding_start_idx),
               edit_start_char_idx - Len(text_before) + prepadding_start_idx>>
        ELSE IF Len(words) <= 5
        THEN <<text_before, edit_start_char_idx - Len(text_before)>>
        ELSE IF found = 0 - 1
        THEN <<SliceFrom(text_before, Max(0, Len(text_before) - 40)),
               Max(0, edit_start_char_idx - 40)>>
        ELSE <<SliceFrom(text_before, context_start_idx),
               edit_start_char_idx - Len(text_before) + context_start_idx>>

\* SemanticEditor.find_postpadding_context: the text and the offset after it
FindPostpaddingContext(text, edit_end_char_idx) ==
    LET text_after == Strip(SliceFrom(text, edit_end_char_idx))
        sentence_boundaries == {<<".", " ">>, <<"?", " ">>, <<"!", " ">>, <<"\n">>}
        found == {StrFind(text_after, b) : b \in sentence_boundaries} \ {0 - 1}
        first_boundary_idx == SetMin({Len(text_after)} \cup found)
        two == Slice(text_after, first_boundary_idx, first_boundary_idx + 2)
        kept == {i \in 1 .. Len(two) : ~IsSpace(two[i])}
        rstripped == IF kept = {} THEN <<>> ELSE SubSeq(two, 1, SetMax(kept))
        boundary_length == IF rstripped \in sentence_boundaries THEN 2 ELSE 1
        words == SplitWords(text_after)
        context_end_idx[k \in 0 .. 5] ==
            IF k = 0 THEN 0
            ELSE LET at == StrFind(SliceFrom(text_after, context_end_idx[k - 1]), words[k])
                 IN  (IF at < 0 THEN at ELSE at + context_end_idx[k - 1]) + Len(words[k])
    IN  IF text_after = <<>> THEN <<<<>>, Len(text)>>
        ELSE IF first_boundary_idx < Len(text_after)
        THEN <<SliceTo(text_after, first_boundary_idx + boundary_length),
               edit_end_char_idx + first_boundary_idx + boundary_length>>
        ELSE IF Len(words) <= 5
        THEN <<text_after, edit_end_char_idx + Len(text_after)>>
        ELSE <<Join(SubSeq(words, 1, 5), <<" ">>), edit_end_char_idx + context_end_idx[5]>>

\* the sum of the sizes of SequenceMatcher(None, a, b).get_matching_blocks(),
\* with difflib's default autojunk: when b has 200 elements or more, an element
\* that occurs more than len(b) // 100 + 1 times in b is popular and starts no
\* match.  find_longest_match takes the longest common block without popular
\* elements, the earliest in a and then in b among the longest, and extends it
\* to the left and to the right over equal elements, popular or not; the same
\* is done again to the left and to the right of the block.  Positions count
\* from 0 and a range [lo, hi) leaves hi out, as in the code
MatchingSize(a, b) ==
    LET n == Len(b)
        ntest == n \div 100 + 1
        \* the least d below limit at which the block stops, or else limit
        first(limit, differs(_)) ==
            LET stops == {d \in 0 .. limit - 1 : differs(d)}
            IN  IF stops = {} THEN limit ELSE SetMin(stops)
        \* get_matching_blocks with the popular elements of b
        matched(popular) ==
            LET RECURSIVE blocks(_, _, _, _)
                \* the length of the block without popular elements that ends
                \* with a[i - 1] and b[j - 1]
                j2len(i, j, alo, blo) ==
                    first(Min(i - alo, j - blo),
                          LAMBDA d : a[i - d] # b[j - d] \/ b[j - d] \in popular)
                \* the equal elements before a[i] and b[j], and from them on
                before(i, j, alo, blo) ==
                    first(Min(i - alo, j - blo), LAMBDA d : a[i - d] # b[j - d])
                behind(i, j, ahi, bhi) ==
                    first(Min(ahi - i, bhi - j), LAMBDA d : a[i + 1 + d] # b[j + 1 + d])
                extended(i, j, k, left, right) == <<i - left, j - left, k + left + right>>
                at(i, j, k, alo, ahi, blo, bhi) ==
                    extended(i, j, k, before(i, j, alo, blo),
                             behind(i + k, j + k, ahi, bhi))
                in_b(i, k, ends, alo, ahi, blo, bhi) ==
                    at(i, SetMin({e[2] : e \in {x \in ends : x[3] = k /\ x[1] = i + k}}) - k,
                       k, alo, ahi, blo, bhi)
                in_a(k, ends, alo, ahi, blo, bhi) ==
                    in_b(SetMin({e[1] : e \in {x \in ends : x[3] = k}}) - k,
                         k, ends, alo, ahi, blo, bhi)
                longest(ends, alo, ahi, blo, bhi) ==
                    IF ends = {} THEN at(alo, blo, 0, alo, ahi, blo, bhi)
                    ELSE in_a(SetMax({e[3] : e \in ends}), ends, alo, ahi, blo, bhi)
                \* (i, j, k): a[i : i + k] == b[j : j + k]
                find_longest_match(alo, ahi, blo, bhi) ==
                    longest({<<e[1], e[2], j2len(e[1], e[2], alo, blo)>> :
                                e \in {x \in (alo + 1 .. ahi) \X (blo + 1 .. bhi) :
                                           a[x[1]] = b[x[2]] /\ b[x[2]] \notin popular}},
                            alo, ahi, blo, bhi)
                rest(m, alo, ahi, blo, bhi) ==
                    IF m[3] = 0 THEN 0
                    ELSE m[3]
                         + (IF alo < m[1] /\ blo < m[2]
                            THEN blocks(alo, m[1], blo, m[2]) ELSE 0)
                         + (IF m[1] + m[3] < ahi /\ m[2] + m[3] < bhi
                            THEN blocks(m[1] + m[3], ahi, m[2] + m[3], bhi) ELSE 0)
                blocks(alo, ahi, blo, bhi) ==
                    rest(find_longest_match(alo, ahi, blo, bhi), alo, ahi, blo, bhi)
            IN  blocks(0, Len(a), 0, Len(b))
    IN  matched(IF n >= 200
                THEN {b[j] : j \in {j \in 1 .. n :
                         Cardinality({x \in 1 .. n : b[x] = b[j]}) > ntest}}
                ELSE {})

\* SemanticEditor._fuzzy_find_substring: ratio() of a window is twice its
\* matching size over the two lengths, so the best window is the first one
\* of the largest matching size; warned tells whether best_ratio < 0.7 was logged
FuzzyFindSubstring(text, substring) ==
    LET n == Len(substring)
        starts == 0 .. Len(text) - n
        result(best_start, best_size) ==
            [best_pos |-> <<best_start, best_start + n>>,
             matches |-> best_size,
             warned |-> 10 * best_size < 7 * n]
        first_of(size, best_size) ==
            result(IF best_size = 0 THEN 0
                   ELSE SetMin({i \in starts : size[i] = best_size}),
                   best_size)
        \* size[i] is the matching size of the window that starts at i
        best(size) == first_of(size, SetMax({0} \cup {size[i] : i \in starts}))
    IN  best([i \in starts |-> MatchingSize(Slice(text, i, i + n), substring)])

\* the end index that is left as it was looked up, also for an insertion
EditEndTokenIdx_KeepsEnd(subseq_original, start_token_idx, end_token_idx) ==
    end_token_idx

\* the end index of the edit operation: an edit whose original text is empty
\* or white space is an insertion at its start index
EditEndTokenIdx(subseq_original, start_token_idx, end_token_idx) ==
    IF IsBlank(subseq_original) THEN start_token_idx ELSE end_token_idx

\* SemanticEditor.find_edit_region with the proposal of the language model
\* (subseq_original, subseq_edited); located is the character span it used,
\* fuzzy the outcome of the fuzzy search when there was one
FindEditRegion(tokenized_audio, proposal) ==
    LET text == tokenized_audio.text
        subseq_original == proposal.subseq_original
        verbatim == StrFind(text, subseq_original)
        \* the edit operation of the span start_char_idx .. end_char_idx
        region(fuzzy, start_char_idx, end_char_idx) ==
            LET edit_range == FindTokenRange(tokenized_audio,
                                             <<start_char_idx, end_char_idx>>)
                start_token_idx == edit_range.value[1][1]
                pre == FindPrepaddingContext(text, start_char_idx)
                pre_range == FindTokenRange(tokenized_audio, <<pre[2], start_char_idx>>)
                post == FindPostpaddingContext(text, end_char_idx)
                post_range == FindTokenRange(tokenized_audio, <<end_char_idx, post[2]>>)
            IN  IF edit_range.raised # ""
                THEN [raised |-> edit_range.raised, value |-> None, fuzzy |-> fuzzy,
                      located |-> <<start_char_idx, end_char_idx>>]
                ELSE [raised |-> "",
                      fuzzy |-> fuzzy,
                      located |-> <<start_char_idx, end_char_idx>>,
                      value |-> Some(
                        [original_text |-> subseq_original,
                         edited_text |-> proposal.subseq_edited,
                         start_token_idx |-> start_token_idx,
                         end_token_idx |->
                             EditEndTokenIdx(subseq_original, start_token_idx,
                                             edit_range.value[1][2]),
                         prepadding_text |-> pre[1],
                         prepadding_start_token_idx |->
                             IF pre[1] # <<>> THEN pre_range.value[1][1] ELSE 0 - 1,
                         prepadding_end_token_idx |->
                             IF pre[1] # <<>> THEN start_token_idx ELSE 0 - 1,
                         postpadding_text |-> post[1],
                         postpadding_start_token_idx |->
                             IF post[1] # <<>> THEN edit_range.value[1][2] ELSE 0 - 1,
                         postpadding_end_token_idx |->
                             IF post[1] # <<>> THEN post_range.value[1][2] ELSE 0 - 1])]
        \* start_char_idx, end_char_idx = self._fuzzy_find_substring(...)
        searched(fuzzy) == region(Some(fuzzy), fuzzy.best_pos[1], fuzzy.best_pos[2])
    IN  IF verbatim >= 0
        THEN region(None, verbatim, verbatim + Len(subseq_original))
        ELSE searched(FuzzyFindSubstring(text, subseq_original))


\* voice_inpainting for a list of dicts: the loop that makes an EditOperation
\* of every dict, in the order of their start_token_idx.  The position of the
\* original text is that of its first occurrence in the transcript, or else the
\* character of the start token, or else the character of the mapped token
\* nearest to it; min(...) of an empty map raises ValueError.  min(...) keeps
\* the first of the keys at the least distance: the smallest one of
\* sorted(text_to_token_map.keys()), and of token_to_text_map.keys() the one
\* that was inserted first
EditOperationsFromDicts(tokenized_audio, edits) ==
    LET text == tokenized_audio.text
        token_to_text_map == tokenized_audio.token_to_text_map
        text_to_token_map == tokenized_audio.text_to_token_map
        char_positions == DOMAIN text_to_token_map
        sorted_edits == SortByStart(edits)
        \* min(sorted(keys), key=lambda x: abs(x - target))
        nearest(keys, target) ==
            LET distance(x) == IF x >= target THEN x - target ELSE target - x
            IN  SetMin({x \in keys : \A y \in keys : distance(x) <= distance(y)})
        \* min(token_to_text_map.keys(), key=lambda x: abs(x - target))
        nearest_token(target) ==
            LET keys == tokenized_audio.token_to_text_keys
                distance(x) == IF x >= target THEN x - target ELSE target - x
                first == SetMin({k \in 1 .. Len(keys) :
                                    \A l \in 1 .. Len(keys) :
                                        distance(keys[k]) <= distance(keys[l])})
            IN  keys[first]
        \* the complete EditOperation, with its pre-padding and post-padding
        with_padding(edit_dict, pre, post) ==
            IF (pre[1] # <<>> \/ post[1] # <<>>) /\ char_positions = {}
            THEN [raised |-> "ValueError", value |-> None]
            ELSE [raised |-> "",
                  value |-> Some(
                    [original_text |-> edit_dict.original_text,
                     edited_text |-> edit_dict.edited_text,
                     start_token_idx |-> edit_dict.start_token_idx,
                     end_token_idx |-> edit_dict.end_token_idx,
                     prepadding_text |-> pre[1],
                     prepadding_start_token_idx |->
                         IF pre[1] # <<>>
                         THEN text_to_token_map[nearest(char_positions, pre[2])]
                         ELSE 0 - 1,
                     prepadding_end_token_idx |->
                         IF pre[1] # <<>> THEN edit_dict.start_token_idx ELSE 0 - 1,
                     postpadding_text |-> post[1],
                     postpadding_start_token_idx |-> edit_dict.end_token_idx,
                     postpadding_end_token_idx |->
                         IF post[1] # <<>>
                         THEN text_to_token_map[nearest(char_positions, post[2])]
                         ELSE 0 - 1])]
        at_position(edit_dict, original_start_pos) ==
            with_padding(edit_dict,
                FindPrepaddingContext(text, original_start_pos),
                FindPostpaddingContext(text,
                    original_start_pos + Len(edit_dict.original_text)))
        located(edit_dict, found) ==
            IF found # 0 - 1 THEN at_position(edit_dict, found)
            ELSE IF edit_dict.start_token_idx \in DOMAIN token_to_text_map
            THEN at_position(edit_dict, token_to_text_map[edit_dict.start_token_idx])
            ELSE IF DOMAIN token_to_text_map = {}
            THEN [raised |-> "ValueError", value |-> None]
            ELSE at_position(edit_dict,
                     token_to_text_map[nearest_token(edit_dict.start_token_idx)])
        operation(edit_dict) ==
            located(edit_dict, StrFind(text, edit_dict.original_text))
        RECURSIVE loop(_, _), appended(_, _, _)
        appended(i, edit_operations, made) ==
            IF made.raised # "" THEN [raised |-> made.raised, value |-> <<>>]
            ELSE loop(i + 1, Append(edit_operations, made.value[1]))
        loop(i, edit_operations) ==
            IF i > Len(sorted_edits) THEN [raised |-> "", value |-> edit_operations]
            ELSE appended(i, edit_operations, operation(sorted_edits[i]))
    IN  loop(1, <<>>)

-----------------------------------------------------------------------------
(* fuse_tokens as a call: the arguments are drawn, the call returns.       *)

\* the codebooks of the arrays: the semantic codebook 0 and one acoustic
\* codebook, which stands for each of the others (the code treats every
\* codebook above 0 alike and on its own)
CodebookList == <<0, 1>>

\* an original array of n frames: every token different, or two tokens alternating
OriginalArray(n, pattern) ==
    [r \in 1 .. Len(CodebookList) |->
        [i \in 1 .. n |->
            100 * CodebookList[r] + (IF pattern = "distinct" THEN i
                                     ELSE 1 + (i % 2))]]

\* a generated array of n frames, none of its tokens in an original array
GeneratedArray(n) ==
    [r \in 1 .. Len(CodebookList) |->
        [j \in 1 .. n |-> 100 * CodebookList[r] + 50 + j]]

FusionMethods == {"direct", "linear", "crossfade", "contextual"}

\* the configurations: every method and window, the semantic exemption on or
\* off, the default transition codebooks or a list that names codebook 0
FusionConfigs ==
    {FusionConfig(m, cf, sem, tc) :
        m \in FusionMethods, cf \in 1 .. MaxCrossfade, sem \in BOOLEAN,
        tc \in {Range(1, 32), <<0, 1>>}}

\* the calls: arrays, a range that may lie outside the array, a configuration
FusionCalls ==
    {[original_tokens |-> OriginalArray(n, pattern),
      generated_tokens |-> GeneratedArray(g),
      edit_range |-> <<s, e>>, config |-> c] :
        n \in 1 .. MaxOrigLen, pattern \in {"distinct", "alternating"},
        g \in 0 .. MaxGenLen, s \in 0 .. MaxOrigLen + 1, e \in 0 .. MaxOrigLen + 1,
        c \in FusionConfigs}

FusionInit ==
    /\ versions = NewStore.versions
    /\ current_version_index = NewStore.current_version_index
    /\ current_state = NewStore.current_state
    /\ original_state = NewStore.original_state
    /\ next_id = NewStore.next_id
    /\ response = [op |-> "new", raised |-> "", value |-> None,
                   before_index |-> 0 - 1, before_count |-> 0,
                   gen_failed |-> FALSE, edits |-> 0, new_text |-> <<>>,
                   target |-> 0]
    /\ f_in \in {Some(c) : c \in FusionCalls}
    /\ f_out = None
    /\ lock = [owner |-> None, count |-> 0]
    /\ threads = <<>>
    /\ sessions = {}

\* TokenFusion.fuse_tokens returns or raises
Fuse ==
    /\ ~IsNone(f_in)
    /\ IsNone(f_out)
    /\ f_out' \in {Some(o) : o \in FuseTokens(f_in[1].original_tokens,
                                              f_in[1].generated_tokens,
                                              f_in[1].edit_range,
                                              f_in[1].config)}
    /\ UNCHANGED <<f_in, storeVars, threadVars>>

FusionSpec == FusionInit /\ [][Fuse]_vars

-----------------------------------------------------------------------------
(* inpaint and generate_replacement_tokens as calls: an audio of some      *)
(* frames, an edit operation and what the generator would produce.         *)

\* the edited texts of an edit: empty, white space only, or a word
EditedTexts == {<<>>, <<" ">>, <<"h","i">>}

\* the audios given to the calls: n frames, numbered from 1
AudioOfFrames(n) ==
    TokenizedAudio([kind |-> "file", of |-> Range(1, n + 1)], Range(1, n + 1),
                   HelloAudio.text, HelloAudio.token_to_text_map,
                   HelloAudio.word_timestamps)

\* the calls: a range that may be inverted or lie outside the array; an edit
\* operation given to generate_replacement_tokens has no pre-padding (the
\* defaults of EditOperation), indices of a pre-padding without its text, or a
\* pre-padding from frame 0 to its start
InpaintCalls ==
    LET prepadding(s) ==
            {[prepadding_text |-> <<>>, prepadding_start_token_idx |-> 0 - 1,
              prepadding_end_token_idx |-> 0 - 1],
             [prepadding_text |-> <<>>, prepadding_start_token_idx |-> 0,
              prepadding_end_token_idx |-> s],
             [prepadding_text |-> <<"a", " ">>, prepadding_start_token_idx |-> 0,
              prepadding_end_token_idx |-> s]}
    IN  {[fn |-> "inpaint", tokenized_audio |-> AudioOfFrames(n),
          edit_op |-> EditOperation(<<"x">>, edited, s, e), gen |-> g] :
            n \in 1 .. MaxOrigLen, edited \in EditedTexts,
            s \in 0 .. MaxOrigLen + 1, e \in 0 .. MaxOrigLen + 1, g \in GenOutcomes}
        \cup
        UNION {{[fn |-> "generate_replacement_tokens",
                 tokenized_audio |-> AudioOfFrames(n),
                 edit_op |-> EditOperation(<<"x">>, edited, s, e) @@ p, gen |-> g] :
                    n \in 1 .. MaxOrigLen, edited \in EditedTexts,
                    e \in 0 .. MaxOrigLen + 1, g \in GenOutcomes,
                    p \in prepadding(s)} : s \in 0 .. MaxOrigLen + 1}

InpaintInit ==
    /\ versions = NewStore.versions
    /\ current_version_index = NewStore.current_version_index
    /\ current_state = NewStore.current_state
    /\ original_state = NewStore.original_state
    /\ next_id = NewStore.next_id
    /\ response = [op |-> "new", raised |-> "", value |-> None,
                   before_index |-> 0 - 1, before_count |-> 0,
                   gen_failed |-> FALSE, edits |-> 0, new_text |-> <<>>,
                   target |-> 0]
    /\ f_in \in {Some(c) : c \in InpaintCalls}
    /\ f_out = None
    /\ lock = [owner |-> None, count |-> 0]
    /\ threads = <<>>
    /\ sessions = {}

\* IntegratedVoiceInpainting.inpaint returns or raises
InpaintCall ==
    /\ ~IsNone(f_in)
    /\ IsNone(f_out)
    /\ f_in[1].fn = "inpaint"
    /\ f_out' = Some(Inpaint(f_in[1].tokenized_audio, f_in[1].edit_op, f_in[1].gen))
    /\ UNCHANGED <<f_in, storeVars, threadVars>>

\* TokenGenerator.generate_replacement_tokens returns or raises
GenerateReplacementCall ==
    /\ ~IsNone(f_in)
    /\ IsNone(f_out)
    /\ f_in[1].fn = "generate_replacement_tokens"
    /\ f_out' = Some(GenerateReplacementTokens(f_in[1].tokenized_audio,
                                               f_in[1].edit_op, f_in[1].gen))
    /\ UNCHANGED <<f_in, storeVars, threadVars>>

InpaintSpec == InpaintInit /\ [][InpaintCall \/ GenerateReplacementCall]_vars

-----------------------------------------------------------------------------
(* tokenize and find_token_range as calls: an audio of some frames with    *)
(* its transcription is tokenized with and without the semantic-only fast  *)
(* path, and text ranges are looked up in the full tokenization.           *)

\* the transcript of the audios
MapperText == <<"a","b"," ","c">>

\* the word chunks of the recogniser: no word at all, or two words in the
\* order they are spoken with times that do not go backwards; the first word
\* may be missing from the text
MapperChunks ==
    LET times == {t \in [1 .. 4 -> 0 .. MaxTime] : \A i \in 1 .. 3 : t[i] <= t[i + 1]}
    IN  {<<>>} \cup
        {<< [text |-> w, start |-> t[1], end |-> t[2]],
            [text |-> <<"c">>, start |-> t[3], end |-> t[4]] >> :
            w \in {<<"a","b">>, <<"z","z">>}, t \in times}

\* the text ranges a caller looks up
TextRanges ==
    {<<a, b>> : a \in 0 .. Len(MapperText) + 1, b \in 0 .. Len(MapperText) + 1}

\* the audios that are tokenized: those of MapperText, and an audio of 56
\* frames that is one word of eleven letters, where the interpolation of the
\* letters 3 and 6 in floating point, int(0 + (3 / 11) * 55) = 14 and
\* int(0 + (6 / 11) * 55) = 29, falls one frame short of the exact quotient
MapperInit ==
    /\ versions = NewStore.versions
    /\ current_version_index = NewStore.current_version_index
    /\ current_state = NewStore.current_state
    /\ original_state = NewStore.original_state
    /\ next_id = NewStore.next_id
    /\ response = [op |-> "new", raised |-> "", value |-> None,
                   before_index |-> 0 - 1, before_count |-> 0,
                   gen_failed |-> FALSE, edits |-> 0, new_text |-> <<>>,
                   target |-> 0]
    /\ f_in \in {Some([transcription |-> [text |-> MapperText, chunks |-> ch],
                       num_frames |-> n]) :
                    ch \in MapperChunks, n \in 1 .. MaxOrigLen}
               \cup {LET word == <<"i","n","p","a","i","n","t","i","n","g","s">>
                     IN  Some([transcription |->
                                   [text |-> word,
                                    chunks |-> << [text |-> word, start |-> 0,
                                                   end |-> 72] >>],
                               num_frames |-> 56])}
    /\ f_out = [full |-> None, fast |-> None, outer |-> None, inner |-> None]
    /\ lock = [owner |-> None, count |-> 0]
    /\ threads = <<>>
    /\ sessions = {}

\* tokenize(audio_path) returns
TokenizeFull ==
    /\ IsNone(f_out.full)
    /\ f_out' = [f_out EXCEPT !.full =
                    Some(Tokenize(f_in[1].transcription, f_in[1].num_frames, FALSE))]
    /\ UNCHANGED <<f_in, storeVars, threadVars>>

\* tokenize(audio_path, semantic_only=True) returns
TokenizeSemanticOnly ==
    /\ IsNone(f_out.fast)
    /\ f_out' = [f_out EXCEPT !.fast =
                    Some(Tokenize(f_in[1].transcription, f_in[1].num_frames, TRUE))]
    /\ UNCHANGED <<f_in, storeVars, threadVars>>

\* the first find_token_range on the tokenized audio returns or raises
FindTokenRangeOuter ==
    /\ ~IsNone(f_out.full)
    /\ IsNone(f_out.outer)
    /\ \E r \in TextRanges :
         /\ r[1] <= r[2]
         /\ f_out' = [f_out EXCEPT !.outer =
                Some([text_range |-> r, result |-> FindTokenRange(f_out.full[1], r)])]
    /\ UNCHANGED <<f_in, storeVars, threadVars>>

\* a later find_token_range on the same tokenized audio returns or raises
FindTokenRangeInner ==
    /\ ~IsNone(f_out.outer)
    /\ IsNone(f_out.inner)
    /\ \E r \in TextRanges :
         /\ r[1] <= r[2]
         /\ f_out' = [f_out EXCEPT !.inner =
                Some([text_range |-> r, result |-> FindTokenRange(f_out.full[1], r)])]
    /\ UNCHANGED <<f_in, storeVars, threadVars>>

MapperSpec ==
    MapperInit /\ [][TokenizeFull \/ TokenizeSemanticOnly
                        \/ FindTokenRangeOuter \/ FindTokenRangeInner]_vars

-----------------------------------------------------------------------------
(* batch_inpaint: several edit operations on one audio in one call.        *)

\* IntegratedVoiceInpainting.batch_inpaint; gens[i] is what generation gives
\* for the i-th operation in the order of processing.  sorted(...) makes a new
\* list of the same objects, and the objects are changed in place:
\* edit_operations is the caller's list as the call leaves it, in the caller's
\* order.  The operations of a list are distinct objects
BatchInpaint(tokenized_audio, edit_operations, gens) ==
    LET sorted_edits == SortByStart(edit_operations)
        \* where the stable sort puts the k-th operation of the caller's list
        position(k) ==
            1 + Cardinality({j \in 1 .. Len(edit_operations) :
                    \/ edit_operations[j].start_token_idx
                           < edit_operations[k].start_token_idx
                    \/ /\ edit_operations[j].start_token_idx
                              = edit_operations[k].start_token_idx
                       /\ j < k})
        as_passed(processed) ==
            [k \in 1 .. Len(edit_operations) |-> processed[position(k)]]
        shifted(op, token_offset) ==
            IF token_offset = 0 THEN op
            ELSE [op EXCEPT
                     !.start_token_idx = @ + token_offset,
                     !.end_token_idx = @ + token_offset,
                     !.prepadding_start_token_idx =
                         IF @ >= 0 THEN @ + token_offset ELSE @,
                     !.prepadding_end_token_idx =
                         IF @ >= 0 THEN op.start_token_idx + token_offset ELSE @]
        RECURSIVE process(_, _, _, _)
        process(i, current_tokens, token_offset, done) ==
            IF i > Len(sorted_edits)
            THEN [raised |-> FALSE, tokens |-> current_tokens,
                  audio |-> ReconstructAudio(current_tokens),
                  edit_operations |-> as_passed(done)]
            ELSE LET edit_op == shifted(sorted_edits[i], token_offset)
                     r == Inpaint([tokenized_audio EXCEPT
                                      !.rvq_tokens = current_tokens],
                                  edit_op, gens[i])
                 IN  IF r.raised
                     THEN [raised |-> TRUE, tokens |-> <<>>,
                           audio |-> ReconstructAudio(<<>>),
                           edit_operations |->
                               as_passed(Append(done, edit_op)
                                   \o SubSeq(sorted_edits, i + 1, Len(sorted_edits)))]
                     ELSE process(i + 1, r.tokens,
                                  token_offset + Len(r.tokens) - Len(current_tokens),
                                  Append(done, edit_op))
    IN  IF edit_operations = <<>>
        THEN [raised |-> FALSE, tokens |-> tokenized_audio.rvq_tokens,
              audio |-> ReconstructAudio(tokenized_audio.rvq_tokens),
              edit_operations |-> <<>>]
        ELSE process(1, tokenized_audio.rvq_tokens, 0, <<>>)

-----------------------------------------------------------------------------
(* The pipeline of voice_inpainting: the audio is tokenized, the proposal  *)
(* of the language model is resolved to an edit operation, and the edit    *)
(* operation is applied by inpaint.                                        *)

\* the transcripts of the audios: five words, a sentence before more than
\* five words, and more than five words without a sentence boundary
PipelineTexts ==
    { <<"T","h","e"," ","q","u","i","c","k"," ","b","r","o","w","n"," ","f",
        "o","x"," ","j","u","m","p","s">>,
      <<"H","i","."," ","T","h","e"," ","q","u","i","c","k"," ","b","r","o",
        "w","n"," ","f","o","x"," ","j","u","m","p","s"," ","o","v","e","r",
        " ","a"," ","d","o","g">>,
      <<"o","n","e"," ","t","w","o"," ","t","h","r","e","e"," ","f","o","u",
        "r"," ","f","i","v","e"," ","s","i","x"," ","s","e","v","e","n">> }

\* the substrings the language model proposes for the original text: a
\* misspelling, words of the transcripts, nothing, a space, and a word that
\* is in no transcript
ProposedOriginals ==
    { <<"q","u","i","k"," ","b","r","o","w","n"," ","f","o","x">>,
      <<"q","u","i","c","k">>, <<"T","h","e">>, <<"j","u","m","p","s">>,
      <<"s","e","v","e","n">>, <<"o","n","e">>,
      <<>>, <<" ">>, <<"z","z","z","z">> }

\* the inputs of a run: the words of the transcript follow each other, each
\* lasting word_time sixteenths of a second, and the audio has the frames up
\* to the end of the last word
PipelineInputs ==
    {[transcription |->
          [text |-> text,
           chunks |-> [k \in 1 .. Len(SplitWords(text)) |->
                          [text |-> SplitWords(text)[k],
                           start |-> (k - 1) * word_time, end |-> k * word_time]]],
      num_frames |-> FrameOfTime(Len(SplitWords(text)) * word_time) + 1,
      edits_type |-> "str",
      proposal |-> [subseq_original |-> original, subseq_edited |-> edited],
      gen |-> gen] :
        text \in PipelineTexts, word_time \in 1 .. MaxTime,
        original \in ProposedOriginals, edited \in EditedTexts, gen \in GenOutcomes}

\* the inputs of a run with a list of dicts: the transcript "The quick brown
\* fox jumps" with its words in time like those of PipelineInputs, or with
\* times that go backwards from word to word with a pause between the words,
\* or with no word chunk from the recogniser.  The lists a caller passes as
\* edits: no edit, one edit, two edits out of order, an original text that is
\* not in the transcript with a start token that is mapped or lies between
\* mapped ones and with one far outside the audio, and an empty original text
\* with an inverted range
PipelineListInputs ==
    LET dict(original_text, edited_text, start_token_idx, end_token_idx) ==
            [original_text |-> original_text, edited_text |-> edited_text,
             start_token_idx |-> start_token_idx, end_token_idx |-> end_token_idx]
        quick == dict(<<"q","u","i","c","k">>, <<"h","i">>, 2, 3)
        fox == dict(<<"f","o","x">>, <<>>, 5, 6)
        absent(start) == dict(<<"z","z","z","z">>, <<"h","i">>, start, start + 1)
        edit_lists == {<<>>, <<quick>>, <<fox, quick>>, <<absent(3)>>, <<absent(4)>>,
                       <<absent(40)>>,
                       <<dict(<<>>, <<"h","i">>, 7, 3)>>}
        text == <<"T","h","e"," ","q","u","i","c","k"," ","b","r","o","w","n",
                  " ","f","o","x"," ","j","u","m","p","s">>
        words == SplitWords(text)
        timed(word_time) == [k \in 1 .. Len(words) |->
                                [text |-> words[k], start |-> (k - 1) * word_time,
                                 end |-> k * word_time]]
        backwards(word_time) ==
            [k \in 1 .. Len(words) |->
                [text |-> words[k], start |-> 2 * (Len(words) - k) * word_time,
                 end |-> (2 * (Len(words) - k) + 1) * word_time]]
    IN  {[transcription |-> [text |-> text, chunks |-> chunks[2]],
          num_frames |-> FrameOfTime(Len(words) * chunks[1]) + 1,
          edits_type |-> "list", edits |-> edits, gen |-> gen] :
            chunks \in {<<word_time, timed(word_time)>> : word_time \in 1 .. MaxTime}
                           \cup {<<2 * word_time, backwards(word_time)>> :
                                     word_time \in 1 .. MaxTime}
                           \cup {<<1, <<>>>>},
            edits \in edit_lists, gen \in GenOutcomes}

PipelineInit ==
    /\ versions = NewStore.versions
    /\ current_version_index = NewStore.current_version_index
    /\ current_state = NewStore.current_state
    /\ original_state = NewStore.original_state
    /\ next_id = NewStore.next_id
    /\ response = [op |-> "new", raised |-> "", value |-> None,
                   before_index |-> 0 - 1, before_count |-> 0,
                   gen_failed |-> FALSE, edits |-> 0, new_text |-> <<>>,
                   target |-> 0]
    /\ f_in \in {Some(input) : input \in PipelineInputs \cup PipelineListInputs}
    /\ f_out = [tokenized_audio |-> None, edit_op |-> None,
                edit_operations |-> None, inpainted |-> None]
    /\ lock = [owner |-> None, count |-> 0]
    /\ threads = <<>>
    /\ sessions = {}

\* tokenizer.tokenize(input_file) returns
PipelineTokenize ==
    /\ IsNone(f_out.tokenized_audio)
    /\ f_out' = [f_out EXCEPT !.tokenized_audio =
                    Some(Tokenize(f_in[1].transcription, f_in[1].num_frames, FALSE))]
    /\ UNCHANGED <<f_in, storeVars, threadVars>>

\* isinstance(edits, str): editor.find_edit_region(tokenized_audio, edits)
\* returns, and its edit operation is the one of edit_operations, or raises
PipelineFindEditRegion ==
    /\ ~IsNone(f_out.tokenized_audio)
    /\ f_in[1].edits_type = "str"
    /\ IsNone(f_out.edit_op)
    /\ LET appended(edit_op) ==
               [f_out EXCEPT
                   !.edit_op = Some(edit_op),
                   !.edit_operations =
                       Some([raised |-> edit_op.raised,
                             value |-> IF edit_op.raised = "" THEN <<edit_op.value[1]>>
                                       ELSE <<>>])]
       IN  f_out' = appended(FindEditRegion(f_out.tokenized_audio[1],
                                            f_in[1].proposal))
    /\ UNCHANGED <<f_in, storeVars, threadVars>>

\* edits is a list of dicts: the loop over sorted_edits has filled
\* edit_operations, or has raised
PipelineEditOperations ==
    /\ ~IsNone(f_out.tokenized_audio)
    /\ f_in[1].edits_type = "list"
    /\ IsNone(f_out.edit_operations)
    /\ f_out' = [f_out EXCEPT !.edit_operations =
                    Some(EditOperationsFromDicts(f_out.tokenized_audio[1],
                                                 f_in[1].edits))]
    /\ UNCHANGED <<f_in, storeVars, threadVars>>

\* len(edit_operations) == 1: inpainting.inpaint(tokenized_audio,
\* edit_operations[0]) returns or raises
PipelineInpaint ==
    /\ ~IsNone(f_out.edit_operations)
    /\ f_out.edit_operations[1].raised = ""
    /\ Len(f_out.edit_operations[1].value) = 1
    /\ IsNone(f_out.inpainted)
    /\ f_out' = [f_out EXCEPT !.inpainted =
                    Some(Inpaint(f_out.tokenized_audio[1],
                                 f_out.edit_operations[1].value[1], f_in[1].gen))]
    /\ UNCHANGED <<f_in, storeVars, threadVars>>

\* any other number of edit operations, none included:
\* inpainting.batch_inpaint(tokenized_audio, edit_operations) returns or raises
PipelineBatchInpaint ==
    /\ ~IsNone(f_out.edit_operations)
    /\ f_out.edit_operations[1].raised = ""
    /\ Len(f_out.edit_operations[1].value) # 1
    /\ IsNone(f_out.inpainted)
    /\ LET edit_operations == f_out.edit_operations[1].value
       IN  f_out' = [f_out EXCEPT !.inpainted =
                        Some(BatchInpaint(f_out.tokenized_audio[1], edit_operations,
                                 [i \in 1 .. Len(edit_operations) |-> f_in[1].gen]))]
    /\ UNCHANGED <<f_in, storeVars, threadVars>>

PipelineNext ==
    \/ PipelineTokenize
    \/ PipelineFindEditRegion
    \/ PipelineEditOperations
    \/ PipelineInpaint
    \/ PipelineBatchInpaint

PipelineSpec == PipelineInit /\ [][PipelineNext]_vars

-----------------------------------------------------------------------------
(* Concurrent requests on one session.  Every handler of SessionManager    *)
(* runs inside "with self._lock"; a thread takes the lock, runs the steps  *)
(* of its handler on the store and gives the lock back with its answer.    *)

\* the threads that serve requests
ThreadIds == {1, 2}

\* the operation lists of the apply_multiple_edits requests, with what
\* generation gives for their operations
MultiEditRequests ==
    LET hello == [kind |-> "dict", original_text |-> <<"h","e","l","l","o">>,
                  edited_text |-> <<"h","i">>,
                  start_token_idx |-> 0, end_token_idx |-> 1]
        world == [kind |-> "dict", original_text |-> <<>>, edited_text |-> <<"y">>,
                  start_token_idx |-> 1, end_token_idx |-> 2]
    IN  {[ops |-> ops, gens |-> [i \in 1 .. Len(ops) |-> gen]] :
            ops \in {<<hello>>, <<world, hello>>}, gen \in GenOutcomes}

\* the requests of the threads
ThreadRequests ==
    LET request(op) == [op |-> op, range |-> <<0, 0>>, new_text |-> <<>>,
                        gen |-> [ok |-> TRUE, frames |-> <<>>], target |-> 0,
                        ops |-> <<>>, gens |-> <<>>]
    IN  {[request("apply_edit") EXCEPT !.range = range, !.new_text = new_text,
                                       !.gen = gen] :
            range \in EditRanges, new_text \in NewTexts, gen \in GenOutcomes}
        \cup
        {[request("apply_multiple_edits") EXCEPT !.ops = m.ops, !.gens = m.gens] :
            m \in MultiEditRequests}
        \cup
        {request(op) : op \in {"undo", "redo", "get_session_state", "cleanup_session"}}
        \cup
        {[request("restore_version") EXCEPT !.target = target] :
            target \in (0 - 1) .. MaxSaves}

RECURSIVE SessionAtHead(_)
\* the store of a session after create_session and prior edits, the pointer
\* at the head
SessionAtHead(prior) ==
    IF prior = 0 THEN StoreInitializeFromBlob(NewStore, HelloAudio).store
    ELSE StoreApplyEdit(SessionAtHead(prior - 1), 0, 1, <<"h","i">>,
                        [ok |-> TRUE, frames |-> <<91, 92>>]).store

\* a lock that excludes nobody
CanAcquire_NoExclusion(lk, t) == TRUE

\* threading.RLock: free, or held by the thread that asks again
CanAcquire(lk, t) == IsNone(lk.owner) \/ lk.owner = Some(t)

ConcurrentInit ==
    /\ \E prior \in 0 .. MaxSaves - 2 :
         /\ versions = SessionAtHead(prior).versions
         /\ current_version_index = SessionAtHead(prior).current_version_index
         /\ current_state = SessionAtHead(prior).current_state
         /\ original_state = SessionAtHead(prior).original_state
         /\ next_id = SessionAtHead(prior).next_id
         /\ f_in = Some([prior |-> prior])
    /\ response = [op |-> "new", raised |-> "", value |-> None,
                   before_index |-> 0 - 1, before_count |-> 0,
                   gen_failed |-> FALSE, edits |-> 0, new_text |-> <<>>,
                   target |-> 0]
    /\ f_out = None
    /\ lock = [owner |-> None, count |-> 0]
    /\ threads \in [ThreadIds -> {[pc |-> "start", request |-> r, edit |-> None,
                                   answer |-> None] : r \in ThreadRequests}]
    /\ sessions = {SessionId}

\* the thread enters "with self._lock" of its handler
ThreadAcquire ==
    \E t \in ThreadIds :
        /\ threads[t].pc = "start"
        /\ CanAcquire(lock, t)
        /\ lock' = [owner |-> Some(t), count |-> 1]
        /\ threads' = [threads EXCEPT ![t].pc = "locked"]
        /\ UNCHANGED <<storeVars, fusionVars, sessions>>

\* cleanup_session: cleanup_token_store(session_id) takes the store out of
\* the registry and the session leaves self.sessions; nothing is raised,
\* whether the session was there or not
ThreadCleanup ==
    \E t \in ThreadIds :
        /\ threads[t].pc = "locked"
        /\ threads[t].request.op = "cleanup_session"
        /\ sessions' = sessions \ {SessionId}
        /\ threads' = [threads EXCEPT ![t].pc = "done",
               ![t].answer = Some([raised |-> "", value |-> None])]
        /\ lock' = [owner |-> None, count |-> 0]
        /\ UNCHANGED <<storeVars, fusionVars>>

\* the handler looks the store up with get_token_store_by_id and calls it:
\* apply_edit_operations and restore_version in one call; apply_edit up to
\* _update_state_from_edit, which leaves the new current state in the store;
\* undo and redo are no methods of the store.  An error leaves the handler
\* and gives the lock back
ThreadCall ==
    \E t \in ThreadIds :
        /\ threads[t].pc = "locked"
        /\ threads[t].request.op # "cleanup_session"
        /\ LET req == threads[t].request
               state == current_state[1]
               original_text == GetTextForTokenRange(state, req.range[1], req.range[2])
               edit_op == EditOperation(original_text, req.new_text, req.range[1],
                                        req.range[2])
               edited == ApplyEditOperation(state, edit_op, req.gen)
               r == LookedUp(sessions, TheStore,
                        IF req.op = "undo" THEN SessionUndo(TheStore)
                        ELSE IF req.op = "redo" THEN SessionRedo(TheStore)
                        ELSE IF req.op = "restore_version"
                        THEN StoreRestoreVersion(TheStore, req.target)
                        ELSE IF req.op = "apply_multiple_edits"
                        THEN StoreApplyEditOperations(TheStore, req.ops, req.gens)
                        ELSE IF req.op = "apply_edit" /\ IsNone(current_state)
                        THEN Raised(TheStore, "TokenStore not initialized")
                        ELSE IF req.op = "apply_edit"
                        THEN Returned([TheStore EXCEPT !.current_state =
                                 Some(UpdateStateFromEdit(state, edit_op, edited.audio,
                                                          edited.tokens))], None)
                        ELSE Returned(TheStore, None))
           IN  /\ StoreBecomes(r.store)
               /\ IF r.raised # ""
                  THEN /\ threads' = [threads EXCEPT ![t].pc = "done",
                              ![t].answer = Some([raised |-> r.raised, value |-> None])]
                       /\ lock' = [owner |-> None, count |-> 0]
                  ELSE /\ threads' = [threads EXCEPT
                              ![t].pc = IF req.op = "apply_edit" THEN "save"
                                        ELSE "answer",
                              ![t].edit = IF req.op = "apply_edit"
                                          THEN Some([description |->
                                                        Describe(original_text, req.new_text),
                                                     generated_regions |->
                                                        edited.generated_regions])
                                          ELSE None]
                       /\ UNCHANGED lock
        /\ UNCHANGED <<response, fusionVars, sessions>>

\* apply_edit saves the version: _save_version_internal copies the current
\* state, drops the versions after the pointer, appends and moves the pointer
ThreadSave ==
    \E t \in ThreadIds :
        /\ threads[t].pc = "save"
        /\ StoreBecomes(SaveVersion(TheStore, "Edit", threads[t].edit[1].description,
                            Range(threads[t].request.range[1],
                                  threads[t].request.range[2]),
                            threads[t].edit[1].generated_regions))
        /\ threads' = [threads EXCEPT ![t].pc = "answer"]
        /\ UNCHANGED <<response, fusionVars, lock, sessions>>

\* the handler answers with get_session_state, which takes the lock once
\* more, and leaves "with self._lock"
ThreadAnswer ==
    \E t \in ThreadIds :
        /\ threads[t].pc = "answer"
        /\ CanAcquire(lock, t)
        /\ threads' = [threads EXCEPT ![t].pc = "done",
               ![t].answer = Some([raised |-> GetSessionState(TheStore).raised,
                                   value |-> GetSessionState(TheStore).value])]
        /\ lock' = [owner |-> None, count |-> 0]
        /\ UNCHANGED <<storeVars, fusionVars, sessions>>

ConcurrentSpec ==
    ConcurrentInit /\ [][\/ ThreadAcquire
                         \/ ThreadCleanup
                         \/ ThreadCall
                         \/ ThreadSave
                         \/ ThreadAnswer]_vars

-----------------------------------------------------------------------------
(* MimiTokenizer: the adapter around the codec model.  The codec model is  *)
(* not part of the program: a call is given what the model does for its    *)
(* input (codec), per route: it throws, or it returns the frames it has    *)
(* computed.  A token array is its shape and its frames, a frame standing  *)
(* for the column of all codebooks; frame 0 is the column of zeros.        *)

\* num_codebooks of the adapter the tokenizer makes
NumCodebooks == 32

\* the samples of the waveform decode returns when it fails
FallbackSamples == 1920

\* MimiTokenizer.encode (streaming = FALSE) and MimiTokenizer.encode_step
\* (streaming = TRUE), on either backend; audio.convertible tells whether the
\* conversion of the input before the model call succeeds.  On the mlx backend
\* the handler reads a local that is unbound until the conversion is done:
\* encode_step resets the streaming model before that
MimiEncode(streaming, audio, codec) ==
    LET model == IF streaming THEN codec.stream ELSE codec.standard
        fallback == [shape |-> <<NumCodebooks, 1>>, frames |-> <<0>>]
    IN  IF codec.backend = "mlx" /\ streaming /\ model.throws /\ model.at_reset
        THEN [raised |-> "UnboundLocalError", value |-> None]
        ELSE IF ~audio.convertible
        THEN IF codec.backend = "mlx"
             THEN [raised |-> "UnboundLocalError", value |-> None]
             ELSE [raised |-> "", value |-> Some(fallback)]
        ELSE IF model.throws
        THEN [raised |-> "", value |-> Some(fallback)]
        ELSE [raised |-> "",
              value |-> Some([shape |-> <<NumCodebooks, Len(model.frames)>>,
                              frames |-> model.frames])]

\* MimiTokenizer.decode, on either backend
MimiDecode(tokens, codec) ==
    IF ~tokens.convertible
    THEN IF codec.backend = "mlx"
         THEN [raised |-> "UnboundLocalError", value |-> None]
         ELSE [raised |-> "",
               value |-> Some([shape |-> <<FallbackSamples>>, zeros |-> TRUE,
                               of |-> <<>>])]
    ELSE IF codec.decode.throws
    THEN [raised |-> "",
          value |-> Some([shape |-> <<FallbackSamples>>, zeros |-> TRUE,
                          of |-> <<>>])]
    ELSE [raised |-> "",
          value |-> Some([shape |-> <<codec.decode.samples>>, zeros |-> FALSE,
                          of |-> tokens.frames])]

\* IntegratedVoiceInpainting.inpaint, the encoding of the generated audio: the
\* streaming encoder first, the regular one when that raises
EncodeGenerated(audio, codec) ==
    LET streamed == MimiEncode(TRUE, audio, codec)
    IN  IF streamed.raised # "" THEN MimiEncode(FALSE, audio, codec)
        ELSE streamed

-----------------------------------------------------------------------------
(* AudioAligner: forced alignment of a transcript with the emissions of    *)
(* the acoustic model.  An emission is a matrix with one row per frame and *)
(* one column per code of the dictionary.  Its values are logarithms and   *)
(* are kept as integers in units of ln 2: the integer x stands for         *)
(* x * ln 2, the logarithm of 2^x.  A score of a point is kept as its      *)
(* logarithm in the same unit.                                             *)

\* float("inf"): larger than the absolute value of every sum of emissions
Inf == 1000000

\* AudioAligner._prepare_text_for_alignment for a language written with spaces;
\* the texts of the model have the one upper-case letter "A"
PrepareTextForAlignment(text, model_dictionary) ==
    LET char_lower(c) == LET low == IF c = "A" THEN "a" ELSE c
                         IN  IF low = " " THEN "|" ELSE low
        kept == SelectSeq([i \in 1 .. Len(text) |-> i - 1],
                    LAMBDA i : char_lower(text[i + 1]) \in DOMAIN model_dictionary)
    IN  [clean_text |-> [k \in 1 .. Len(kept) |-> char_lower(text[kept[k] + 1])],
         tokens |-> [k \in 1 .. Len(kept) |->
                        model_dictionary[char_lower(text[kept[k] + 1])]],
         char_to_idx_map |-> [k \in 0 .. Len(kept) - 1 |-> kept[k + 1]]]

\* AudioAligner._get_trellis with _get_wildcard_emission (wild); row t + 1 of the result is frame t, column j + 1
\* is token j.  With one token and more than one frame the wildcard emission
\* is asked for an empty token list, whose tensor cannot index: IndexError
GetTrellis(emission, tokens, blank_id) ==
    LET num_frames == Len(emission)
        num_tokens == Len(tokens)
        plus(a, e) == IF a >= Inf THEN Inf ELSE IF a <= 0 - Inf THEN 0 - Inf
                      ELSE a + e
        wild(frame_emission, token) ==
            IF token = 0 - 1
            THEN SetMax({frame_emission[c + 1] :
                            c \in {d \in 0 .. Len(frame_emission) - 1 : d # blank_id}})
            ELSE frame_emission[token + 1]
        inf_from == IF num_tokens = 1 THEN 0 ELSE Max(num_frames - num_tokens + 1, 0)
        cumsum[t \in 0 .. num_frames - 1] ==
            IF t = 0 THEN 0 ELSE cumsum[t - 1] + emission[t + 1][blank_id + 1]
        first(t) == IF t >= inf_from THEN Inf ELSE cumsum[t]
        row[t \in 0 .. num_frames - 1] ==
            [j \in 1 .. num_tokens |->
                IF j = 1 THEN first(t)
                ELSE IF t = 0 THEN 0 - Inf
                ELSE Max(plus(row[t - 1][j], emission[t][blank_id + 1]),
                         plus(row[t - 1][j - 1],
                              wild(emission[t], tokens[j])))]
    IN  IF num_tokens = 1 /\ num_frames > 1
        THEN [raised |-> "IndexError", value |-> <<>>]
        ELSE [raised |-> "", value |-> [t \in 1 .. num_frames |-> row[t - 1]]]

\* _backtrack_beam that returns the best beam as the search left it
BacktrackBeam_NoFill(trellis, emission, tokens, blank_id, beam_width) ==
    LET T == Len(trellis) - 1
        J == Len(trellis[1]) - 1
        isinf(x) == x >= Inf \/ x <= 0 - Inf
        wild(frame_emission, token) ==
            IF token = 0 - 1
            THEN SetMax({frame_emission[c + 1] :
                            c \in {d \in 0 .. Len(frame_emission) - 1 : d # blank_id}})
            ELSE frame_emission[token + 1]
        Point(j, t, score) == [token_index |-> j, time_index |-> t, score |-> score]
        BeamState(j, t, score, path) ==
            [token_index |-> j, time_index |-> t, score |-> score, path |-> path]
        successors(beam) ==
            LET t == beam.time_index
                j == beam.token_index
                stay_score == trellis[t][j + 1]
                change_score == IF j > 0 THEN trellis[t][j] ELSE 0 - Inf
                stay == IF ~isinf(stay_score)
                        THEN <<BeamState(j, t - 1, stay_score,
                                   Append(beam.path,
                                       Point(j, t - 1, emission[t][blank_id + 1])))>>
                        ELSE <<>>
                change == IF j > 0 /\ ~isinf(change_score)
                          THEN <<BeamState(j - 1, t - 1, change_score,
                                     Append(beam.path,
                                         Point(j - 1, t - 1,
                                             wild(emission[t], tokens[j + 1]))))>>
                          ELSE <<>>
            IN  IF t <= 0 THEN <<>> ELSE stay \o change
        RECURSIVE expand(_)
        expand(beams) ==
            IF beams = <<>> THEN <<>>
            ELSE successors(Head(beams)) \o expand(Tail(beams))
        sorted(next_beams) ==
            LET rank(i) ==
                    Cardinality({k \in 1 .. Len(next_beams) :
                        \/ next_beams[k].score > next_beams[i].score
                        \/ (next_beams[k].score = next_beams[i].score /\ k < i)}) + 1
            IN  [r \in 1 .. Len(next_beams) |->
                    next_beams[CHOOSE i \in 1 .. Len(next_beams) : rank(i) = r]]
        RECURSIVE search(_, _)
        search(beams, iterations) ==
            IF beams # <<>> /\ beams[1].token_index > 0
            THEN search(SliceTo(sorted(expand(beams)), beam_width), iterations + 1)
            ELSE [beams |-> beams, iterations |-> iterations]
        found == search(<<BeamState(J, T, trellis[T + 1][J + 1],
                              <<Point(J, T, emission[T + 1][blank_id + 1])>>)>>, 0)
        best_beam == found.beams[1]
        reversed(path) == [i \in 1 .. Len(path) |-> path[Len(path) + 1 - i]]
    IN  IF found.beams = <<>>
        THEN [value |-> None, iterations |-> found.iterations]
        ELSE [value |-> Some(reversed(best_beam.path)),
              iterations |-> found.iterations]

\* AudioAligner._backtrack_beam; iterations counts the passes of the search loop
BacktrackBeam(trellis, emission, tokens, blank_id, beam_width) ==
    LET T == Len(trellis) - 1
        J == Len(trellis[1]) - 1
        isinf(x) == x >= Inf \/ x <= 0 - Inf
        wild(frame_emission, token) ==
            IF token = 0 - 1
            THEN SetMax({frame_emission[c + 1] :
                            c \in {d \in 0 .. Len(frame_emission) - 1 : d # blank_id}})
            ELSE frame_emission[token + 1]
        Point(j, t, score) == [token_index |-> j, time_index |-> t, score |-> score]
        BeamState(j, t, score, path) ==
            [token_index |-> j, time_index |-> t, score |-> score, path |-> path]
        successors(beam) ==
            LET t == beam.time_index
                j == beam.token_index
                stay_score == trellis[t][j + 1]
                change_score == IF j > 0 THEN trellis[t][j] ELSE 0 - Inf
                stay == IF ~isinf(stay_score)
                        THEN <<BeamState(j, t - 1, stay_score,
                                   Append(beam.path,
                                       Point(j, t - 1, emission[t][blank_id + 1])))>>
                        ELSE <<>>
                change == IF j > 0 /\ ~isinf(change_score)
                          THEN <<BeamState(j - 1, t - 1, change_score,
                                     Append(beam.path,
                                         Point(j - 1, t - 1,
                                             wild(emission[t], tokens[j + 1]))))>>
                          ELSE <<>>
            IN  IF t <= 0 THEN <<>> ELSE stay \o change
        RECURSIVE expand(_)
        expand(beams) ==
            IF beams = <<>> THEN <<>>
            ELSE successors(Head(beams)) \o expand(Tail(beams))
        sorted(next_beams) ==
            LET rank(i) ==
                    Cardinality({k \in 1 .. Len(next_beams) :
                        \/ next_beams[k].score > next_beams[i].score
                        \/ (next_beams[k].score = next_beams[i].score /\ k < i)}) + 1
            IN  [r \in 1 .. Len(next_beams) |->
                    next_beams[CHOOSE i \in 1 .. Len(next_beams) : rank(i) = r]]
        filled(best_beam) ==
            best_beam.path \o
                [i \in 1 .. best_beam.time_index |->
                    Point(best_beam.token_index, best_beam.time_index - i,
                          emission[best_beam.time_index - i + 1][blank_id + 1])]
        reversed(path) == [i \in 1 .. Len(path) |-> path[Len(path) + 1 - i]]
        RECURSIVE search(_, _)
        search(beams, iterations) ==
            IF beams # <<>> /\ beams[1].token_index > 0
            THEN search(SliceTo(sorted(expand(beams)), beam_width), iterations + 1)
            ELSE IF beams = <<>> THEN [value |-> None, iterations |-> iterations]
            ELSE [value |-> Some(reversed(filled(beams[1]))),
                  iterations |-> iterations]
    IN  search(<<BeamState(J, T, trellis[T + 1][J + 1],
                     <<Point(J, T, emission[T + 1][blank_id + 1])>>)>>, 0)

\* align_transcript that returns no word when nothing can be aligned
AlignTranscript_EmptyOnFailure(transcript, start_time, end_time, audio_length, logits, model_dictionary) ==
    [raised |-> "", value |-> <<>>]

\* AudioAligner._merge_repeats: one segment per run of equal token indices, with
\* the scores of its points
MergeRepeats(path) ==
    LET starts == {i \in 1 .. Len(path) :
                      i = 1 \/ path[i - 1].token_index # path[i].token_index}
        segment(i1) ==
            LET i2 == SetMin({k \in i1 + 1 .. Len(path) + 1 :
                          k = Len(path) + 1
                          \/ path[k].token_index # path[i1].token_index})
            IN  [start |-> path[i1].time_index, end |-> path[i2 - 1].time_index + 1,
                 logs |-> [k \in 1 .. i2 - i1 |-> path[i1 + k - 1].score]]
    IN  [n \in 1 .. Cardinality(starts) |->
            segment(CHOOSE i \in starts :
                        Cardinality({k \in starts : k < i}) = n - 1)]

\* torch.log_softmax(logits, dim=-1): every row less the logarithm of the sum
\* of the exponentials of its values.  In units of ln 2 that sum is the sum of
\* the powers 2^x of the row; its logarithm is an integer for the rows the calls
\* are made with, whose sums are powers of two
LogSoftmax(logits) ==
    LET RECURSIVE SumOfPowers(_, _), Log2(_)
        \* the sum of 2^(row[k] - low) over the columns k of the row
        SumOfPowers(row, low) ==
            IF row = <<>> THEN 0
            ELSE 2 ^ (Head(row) - low) + SumOfPowers(Tail(row), low)
        Log2(n) == IF n < 2 THEN 0 ELSE 1 + Log2(n \div 2)
        log_softmax(row) ==
            LET low == SetMin({row[k] : k \in 1 .. Len(row)})
                logsumexp == low + Log2(SumOfPowers(row, low))
            IN  [k \in 1 .. Len(row) |-> row[k] - logsumexp]
    IN  [t \in 1 .. Len(logits) |-> log_softmax(logits[t])]

\* AudioAligner.align_transcript with beam_width=4; logits is what the
\* acoustic model returns for the window, and the emission that is aligned is
\* its log_softmax.  A time is a fraction <<num, den>> of seconds; a score is
\* 0.0 (zero) or the mean of the exponentials of logs, the powers 2^x of its
\* integers
AlignTranscript(transcript, start_time, end_time, audio_length, logits, model_dictionary) ==
    LET emission == LogSoftmax(logits)
        end == IF IsNone(end_time) THEN audio_length ELSE end_time[1]
        prepared == PrepareTextForAlignment(transcript, model_dictionary)
        dummy == <<[word |-> transcript, start |-> <<start_time, 1>>,
                    end |-> <<end, 1>>, score |-> [zero |-> TRUE, logs |-> <<>>]]>>
        pads == {c \in DOMAIN model_dictionary : c \in {"[pad]", "<pad>"}}
        blank_id == IF pads = {} THEN 0
                    ELSE model_dictionary[CHOOSE c \in pads : TRUE]
        frames == Len(emission) - 1
        duration == end - start_time
        time(frame) == <<start_time * frames + frame * duration, frames>>
        aligned(char_segments, tokens) ==
            [n \in 1 .. Min(Len(char_segments), Len(tokens)) |->
                [char |-> transcript[prepared.char_to_idx_map[n - 1] + 1],
                 start |-> time(char_segments[n].start),
                 end |-> time(char_segments[n].end),
                 logs |-> char_segments[n].logs]]
        \* the words: maximal runs of characters that are no white space
        word(aligned_chars, n1) ==
            LET n2 == SetMin({k \in n1 + 1 .. Len(aligned_chars) + 1 :
                          k = Len(aligned_chars) + 1 \/ IsSpace(aligned_chars[k].char)})
                chars == SubSeq(aligned_chars, n1, n2 - 1)
            IN  [word |-> [k \in 1 .. Len(chars) |-> chars[k].char],
                 start |-> <<SetMin({chars[k].start[1] : k \in 1 .. Len(chars)}),
                             frames>>,
                 end |-> <<SetMax({chars[k].end[1] : k \in 1 .. Len(chars)}),
                           frames>>,
                 score |-> [zero |-> FALSE,
                            logs |-> [k \in 1 .. Len(chars) |-> chars[k].logs]]]
        words(aligned_chars) ==
            LET firsts == {n \in 1 .. Len(aligned_chars) :
                              /\ ~IsSpace(aligned_chars[n].char)
                              /\ (n = 1 \/ IsSpace(aligned_chars[n - 1].char))}
            IN  [n \in 1 .. Cardinality(firsts) |->
                    word(aligned_chars,
                         CHOOSE i \in firsts :
                             Cardinality({k \in firsts : k < i}) = n - 1)]
        from_path(found, tokens) ==
            IF IsNone(found) THEN [raised |-> "", value |-> dummy]
            ELSE IF frames = 0 THEN [raised |-> "ZeroDivisionError", value |-> <<>>]
            ELSE [raised |-> "",
                  value |-> words(aligned(MergeRepeats(found[1]), tokens))]
        from_trellis(trellis, tokens) ==
            IF trellis.raised # "" THEN [raised |-> trellis.raised, value |-> <<>>]
            ELSE from_path(BacktrackBeam(trellis.value, emission, tokens, blank_id,
                                         4).value, tokens)
        from_tokens(tokens) ==
            IF tokens = <<>> THEN [raised |-> "", value |-> dummy]
            ELSE from_trellis(GetTrellis(emission, tokens, blank_id), tokens)
    IN  from_tokens(prepared.tokens)

-----------------------------------------------------------------------------
(* Calls of the codec adapter, the aligner, the text lookup of the store   *)
(* and the two inpainting entry points, each on its own: f_in holds the    *)
(* function called and its arguments, f_out what it returned or raised.    *)

CallInit ==
    LET outcomes(base) ==
            {[throws |-> TRUE, at_reset |-> r, frames |-> <<>>] : r \in BOOLEAN}
            \cup
            {[throws |-> FALSE, at_reset |-> FALSE,
              frames |-> [j \in 1 .. MaxGenLen |-> base + j]]}
        codecs ==
            {[backend |-> b, standard |-> o, stream |-> s, decode |-> d] :
                b \in {"torch", "mlx"},
                o \in {x \in outcomes(70) : ~x.at_reset}, s \in outcomes(60),
                d \in {[throws |-> TRUE, samples |-> 0],
                       [throws |-> FALSE, samples |-> 3840]}}
        codec_calls ==
            {[fn |-> fn, audio |-> [convertible |-> c, of |-> <<"h","i">>],
              codec |-> k] :
                fn \in {"encode", "encode_step"}, c \in BOOLEAN, k \in codecs}
            \cup
            {[fn |-> "decode",
              tokens |-> [convertible |-> c, frames |-> Range(1, n + 1)],
              codec |-> k] :
                c \in BOOLEAN, n \in 1 .. MaxOrigLen, k \in codecs}
        inpaint_calls ==
            {[fn |-> "inpaint", tokenized_audio |-> AudioOfFrames(MaxOrigLen),
              edit_op |-> EditOperation(<<"x">>, edited, r[1], r[2]),
              generated |-> [ok |-> ok,
                             audio |-> [convertible |-> TRUE, of |-> edited]],
              codec |-> k] :
                edited \in EditedTexts, r \in {<<1, 2>>, <<2, 2>>, <<0, MaxOrigLen>>},
                ok \in BOOLEAN, k \in {c \in codecs : ~c.decode.throws}}
        batch_ops ==
            {[original_text |-> <<"x">>, edited_text |-> edited,
              start_token_idx |-> r[1], end_token_idx |-> r[2],
              prepadding_start_token_idx |-> p,
              prepadding_end_token_idx |-> IF p < 0 THEN p ELSE r[1]] :
                edited \in {<<>>, <<"h","i">>},
                r \in {<<0, 1>>, <<1, 1>>, <<1, 3>>, <<3, MaxOrigLen>>},
                p \in {0 - 1, 0}}
        batch_gens(n) ==
            {[i \in 1 .. n |->
                 IF lens[i] = 0 THEN [ok |-> FALSE, frames |-> <<>>]
                 ELSE [ok |-> TRUE,
                       frames |-> [j \in 1 .. lens[i] |-> 80 + 10 * i + j]]] :
                lens \in [1 .. n -> {0, 1, MaxGenLen + 1}]}
        batch_calls ==
            {[fn |-> "batch_inpaint", tokenized_audio |-> AudioOfFrames(MaxOrigLen),
              edit_operations |-> ops, gens |-> g] :
                ops \in {<<>>} \cup {<<a>> : a \in batch_ops}
                            \cup {<<a, b>> : a \in batch_ops, b \in batch_ops},
                g \in batch_gens(2)}
        text_calls ==
            {[fn |-> "_get_text_for_token_range", state |-> state,
              start_token_idx |-> s, end_token_idx |-> e] :
                state \in TokenizeResults, s \in 0 .. OrigFrames,
                e \in 0 .. OrigFrames}
        model_dictionary == ("<pad>" :> 0) @@ ("a" :> 1) @@ ("b" :> 2) @@ ("|" :> 3)
        rows == {<<0 - 1, 0 - 3, 0 - 3, 0 - 3>>, <<0 - 3, 0 - 1, 0 - 3, 0 - 3>>,
                 <<0 - 3, 0 - 3, 0 - 1, 0 - 3>>, <<0 - 2, 0 - 2, 0 - 2, 0 - 2>>}
        emissions == UNION {[1 .. n -> rows] : n \in 1 .. MaxEmissionFrames}
        \* the rows the acoustic model returns, in units of ln 2: the powers
        \* 2^x of the first and of the third sum to 2, of the second to 1 and
        \* of the last to 4, so that log_softmax takes 1, 0 and 2 from them
        logit_rows == {<<0, 0 - 1, 0 - 2, 0 - 2>>, <<0 - 2, 0 - 1, 0 - 3, 0 - 3>>,
                       <<0 - 2, 0 - 2, 0, 0 - 1>>, <<0, 0, 0, 0>>}
        logits == UNION {[1 .. n -> logit_rows] : n \in 1 .. MaxEmissionFrames}
        align_calls ==
            {[fn |-> "align_transcript", transcript |-> t, start_time |-> 1,
              end_time |-> end, audio_length |-> 5, logits |-> em,
              model_dictionary |-> model_dictionary] :
                t \in {<<>>, <<"?">>, <<"a">>, <<"a","b">>, <<"A"," ","b">>,
                       <<"a","?","b","a">>},
                end \in {None, Some(3)}, em \in logits}
        trellis_of(em, toks) == GetTrellis(em, toks, 0)
        beam_calls ==
            {[fn |-> "_backtrack_beam", trellis |-> trellis_of(p[1], p[2]).value,
              emission |-> p[1], tokens |-> p[2], blank_id |-> 0,
              beam_width |-> w] :
                p \in {q \in emissions \X {<<1>>, <<1, 2>>, <<1, 1>>, <<2, 0 - 1>>,
                                            <<1, 3, 2>>} :
                          trellis_of(q[1], q[2]).raised = ""},
                w \in {1, 2, 5}}
    IN  /\ versions = NewStore.versions
        /\ current_version_index = NewStore.current_version_index
        /\ current_state = NewStore.current_state
        /\ original_state = NewStore.original_state
        /\ next_id = NewStore.next_id
        /\ response = [op |-> "new", raised |-> "", value |-> None,
                       before_index |-> 0 - 1, before_count |-> 0,
                       gen_failed |-> FALSE, edits |-> 0, new_text |-> <<>>,
                       target |-> 0]
        /\ \/ f_in \in {Some(c) : c \in codec_calls}
           \/ f_in \in {Some(c) : c \in inpaint_calls}
           \/ f_in \in {Some(c) : c \in batch_calls}
           \/ f_in \in {Some(c) : c \in text_calls}
           \/ f_in \in {Some(c) : c \in align_calls}
           \/ f_in \in {Some(c) : c \in beam_calls}
        /\ f_out = None
        /\ lock = [owner |-> None, count |-> 0]
        /\ threads = <<>>
        /\ sessions = {}

\* MimiTokenizer.encode or MimiTokenizer.encode_step returns or raises
CodecEncodeCall ==
    /\ ~IsNone(f_in)
    /\ IsNone(f_out)
    /\ f_in[1].fn \in {"encode", "encode_step"}
    /\ f_out' = Some(MimiEncode(f_in[1].fn = "encode_step", f_in[1].audio,
                                f_in[1].codec))
    /\ UNCHANGED <<f_in, storeVars, threadVars>>

\* MimiTokenizer.decode returns or raises
CodecDecodeCall ==
    /\ ~IsNone(f_in)
    /\ IsNone(f_out)
    /\ f_in[1].fn = "decode"
    /\ f_out' = Some(MimiDecode(f_in[1].tokens, f_in[1].codec))
    /\ UNCHANGED <<f_in, storeVars, threadVars>>

\* IntegratedVoiceInpainting.inpaint with the codec it encodes the generated
\* audio with
InpaintEncodeCall ==
    /\ ~IsNone(f_in)
    /\ IsNone(f_out)
    /\ f_in[1].fn = "inpaint"
    /\ LET encoded == EncodeGenerated(f_in[1].generated.audio, f_in[1].codec)
       IN  f_out' = Some(Inpaint(f_in[1].tokenized_audio, f_in[1].edit_op,
                                 [ok |-> f_in[1].generated.ok /\ encoded.raised = "",
                                  frames |-> IF IsNone(encoded.value) THEN <<>>
                                             ELSE encoded.value[1].frames]))
    /\ UNCHANGED <<f_in, storeVars, threadVars>>

\* IntegratedVoiceInpainting.batch_inpaint returns or raises
BatchInpaintCall ==
    /\ ~IsNone(f_in)
    /\ IsNone(f_out)
    /\ f_in[1].fn = "batch_inpaint"
    /\ f_out' = Some(BatchInpaint(f_in[1].tokenized_audio, f_in[1].edit_operations,
                                  f_in[1].gens))
    /\ UNCHANGED <<f_in, storeVars, threadVars>>

\* TokenStore._get_text_for_token_range returns
GetTextForTokenRangeCall ==
    /\ ~IsNone(f_in)
    /\ IsNone(f_out)
    /\ f_in[1].fn = "_get_text_for_token_range"
    /\ f_out' = Some(GetTextForTokenRange(f_in[1].state, f_in[1].start_token_idx,
                                          f_in[1].end_token_idx))
    /\ UNCHANGED <<f_in, storeVars, threadVars>>

\* AudioAligner.align_transcript returns or raises
AlignTranscriptCall ==
    /\ ~IsNone(f_in)
    /\ IsNone(f_out)
    /\ f_in[1].fn = "align_transcript"
    /\ f_out' = Some(AlignTranscript(f_in[1].transcript, f_in[1].start_time,
                                     f_in[1].end_time, f_in[1].audio_length,
                                     f_in[1].logits, f_in[1].model_dictionary))
    /\ UNCHANGED <<f_in, storeVars, threadVars>>

\* AudioAligner._backtrack_beam returns
BacktrackBeamCall ==
    /\ ~IsNone(f_in)
    /\ IsNone(f_out)
    /\ f_in[1].fn = "_backtrack_beam"
    /\ f_out' = Some(BacktrackBeam(f_in[1].trellis, f_in[1].emission,
                                   f_in[1].tokens, f_in[1].blank_id,
                                   f_in[1].beam_width))
    /\ UNCHANGED <<f_in, storeVars, threadVars>>

CallSpec ==
    CallInit /\ [][CodecEncodeCall \/ CodecDecodeCall \/ InpaintEncodeCall
                      \/ BatchInpaintCall \/ GetTextForTokenRangeCall
                      \/ AlignTranscriptCall \/ BacktrackBeamCall]_vars

-----------------------------------------------------------------------------
(* TokenStore called directly, with the identity of its objects.  Python   *)
(* binds names to objects: current_state, original_state and the           *)
(* token_data of every version each refer to one TokenizedAudio object,    *)
(* and _update_state_from_edit assigns to the attributes of the object     *)
(* current_state refers to.  f_out holds the object each name refers to.  *)

\* a deepcopy that hands back the object it was given
DeepCopy_SameObject(obj, used) == obj

\* copy.deepcopy(obj): a new object, distinct from every object in use
DeepCopy(obj, used) == CHOOSE n \in 0 .. Cardinality(used) : n \notin used

\* the store as its objects hold it after an assignment to the attributes of
\* current_state: every name bound to the same object shows the same content
SharedObjects(st, objects) ==
    IF IsNone(st.current_state) THEN st
    ELSE [st EXCEPT
             !.versions =
                 [i \in 1 .. Len(st.versions) |->
                     IF objects.versions[i] = objects.current
                     THEN [st.versions[i] EXCEPT !.token_data = st.current_state[1]]
                     ELSE st.versions[i]],
             !.original_state =
                 IF objects.original = objects.current THEN st.current_state
                 ELSE st.original_state]

\* TokenStore.initialize on the new store: original_state is the tokenizer's
\* object, current_state a deep copy of it, version 0 a deep copy of that.
\* The tokenizer returns the audio of the tests, or "One piece of chocolate,
\* please." with the word chunks of the recogniser, spoken slowly or at an
\* ordinary pace (the word boundaries in sixteenths of a second)
StoreInitializeCall ==
    /\ IsNone(current_state)
    /\ LET text == <<"O","n","e"," ","p","i","e","c","e"," ","o","f"," ",
                     "c","h","o","c","o","l","a","t","e",","," ",
                     "p","l","e","a","s","e",".">>
           words == <<SubSeq(text, 1, 3), SubSeq(text, 5, 9), SubSeq(text, 11, 12),
                      SubSeq(text, 14, 23), SubSeq(text, 25, 31)>>
           times == {<<0, 6, 14, 18, 34, 46>>, <<0, 4, 10, 12, 22, 32>>}
           chunks(t) == [i \in 1 .. 5 |->
                            [text |-> words[i], start |-> t[i], end |-> t[i + 1],
                             token_idx |-> None]]
           frames(t) == (t[6] * TokenFrameRate.num + TokenFrameRate.den - 1)
                            \div TokenFrameRate.den
           spoken == {Tokenize([text |-> text, chunks |-> chunks(t)],
                               frames(t), FALSE) : t \in times}
       IN  \E tokenized \in {HelloAudio} \cup spoken :
            LET r == StoreInitialize(TheStore, tokenized)
                current == DeepCopy(0, {0})
                objects == [original |-> 0, current |-> current,
                            versions |-> <<DeepCopy(current, {0, current})>>]
            IN  /\ StoreBecomes(SharedObjects(r.store, objects))
                /\ response' = Response("initialize", r, FALSE, <<>>, 0)
                /\ f_out' = Some(objects)
    /\ UNCHANGED <<f_in, threadVars>>

\* TokenStore.initialize_from_blob on the new store: the blob is written to a
\* temporary file and initialize is called with its path; the objects are those
\* of initialize.  The tokenizer returns what it may return for an upload
StoreInitializeFromBlobCall ==
    /\ IsNone(current_state)
    /\ \E tokenized \in TokenizeResults :
        LET r == StoreInitializeFromBlob(TheStore, tokenized)
            current == DeepCopy(0, {0})
            objects == [original |-> 0, current |-> current,
                        versions |-> <<DeepCopy(current, {0, current})>>]
        IN  /\ StoreBecomes(SharedObjects(r.store, objects))
            /\ response' = Response("initialize_from_blob", r, FALSE, <<>>, 0)
            /\ f_out' = Some(objects)
    /\ UNCHANGED <<f_in, threadVars>>

\* TokenStore.apply_edit: the versions that stay keep their objects, the new
\* version is a deep copy of current_state.  The caller replaces the second
\* token of the audio of the tests by one of its texts, and in the spoken
\* sentence the range find_token_range gives for the characters 13..22
\* ("chocolate") by "vanilla"; the target of the response is the range
StoreApplyEditCall ==
    /\ next_id < MaxSaves
    /\ \E edit \in IF \E i \in DOMAIN current_state :
                         "text_to_token_map" \in DOMAIN current_state[i]
                   THEN {<<FindTokenRange(current_state[1], <<13, 22>>).value[1],
                           <<"v","a","n","i","l","l","a">>>>}
                   ELSE {<<1, 2>>} \X NewTexts,
          gen \in GenOutcomes :
        LET range == edit[1]
            new_text == edit[2]
            r == StoreApplyEdit(TheStore, range[1], range[2], new_text, gen)
            kept == SubSeq(f_out[1].versions, 1, Len(r.store.versions) - 1)
            objects == IF r.raised # "" THEN f_out
                       ELSE Some([f_out[1] EXCEPT !.versions =
                                Append(kept,
                                    DeepCopy(f_out[1].current,
                                        {f_out[1].original, f_out[1].current}
                                            \cup {kept[i] : i \in DOMAIN kept}))])
        IN  /\ StoreBecomes(IF r.raised # "" THEN r.store
                            ELSE SharedObjects(r.store, objects[1]))
            /\ response' = Response("apply_edit", r,
                               SomeGenFails(TheStore,
                                   <<EditOperation(<<>>, new_text, range[1],
                                                   range[2])>>, <<gen>>),
                               <<<<range[1], range[2], new_text>>>>, range)
            /\ f_out' = objects
    /\ UNCHANGED <<f_in, threadVars>>

\* TokenStore.apply_edit_operations with two dicts
StoreApplyEditOperationsCall ==
    /\ next_id < MaxSaves
    /\ \E ops \in {l \in EditOperationLists : Len(l) = 2 /\ l[1].kind = "dict"},
          gen \in GenOutcomes :
        LET gens == [i \in 1 .. Len(ops) |-> gen]
            r == StoreApplyEditOperations(TheStore, ops, gens)
            kept == SubSeq(f_out[1].versions, 1, Len(r.store.versions) - 1)
            objects == IF r.raised # "" THEN f_out
                       ELSE Some([f_out[1] EXCEPT !.versions =
                                Append(kept,
                                    DeepCopy(f_out[1].current,
                                        {f_out[1].original, f_out[1].current}
                                            \cup {kept[i] : i \in DOMAIN kept}))])
        IN  /\ StoreBecomes(IF r.raised # "" THEN r.store
                            ELSE SharedObjects(r.store, objects[1]))
            /\ response' = Response("apply_edit_operations", r,
                               SomeGenFails(TheStore, ops, gens), EditsOf(ops), 0)
            /\ f_out' = objects
    /\ UNCHANGED <<f_in, threadVars>>

\* TokenStore.save_version("Checkpoint"): reading current_state.audio of a
\* store that holds no state raises AttributeError
StoreSaveVersionCall ==
    /\ next_id < MaxSaves
    /\ LET r == IF IsNone(current_state) THEN Raised(TheStore, "AttributeError")
                ELSE LET saved == SaveVersion(TheStore, "Checkpoint", <<>>, <<>>, <<>>)
                     IN  Returned(saved, Some(saved.next_id - 1))
           kept == SubSeq(f_out[1].versions, 1, Len(r.store.versions) - 1)
           objects == IF r.raised # "" THEN f_out
                      ELSE Some([f_out[1] EXCEPT !.versions =
                               Append(kept,
                                   DeepCopy(f_out[1].current,
                                       {f_out[1].original, f_out[1].current}
                                           \cup {kept[i] : i \in DOMAIN kept}))])
       IN  /\ StoreBecomes(IF r.raised # "" THEN r.store
                           ELSE SharedObjects(r.store, objects[1]))
           /\ response' = Response("save_version", r, FALSE, <<>>, 0)
           /\ f_out' = objects
    /\ UNCHANGED <<f_in, threadVars>>

\* TokenStore.restore_version(version_id, version_index): an id is looked up
\* first and overrides the index; the target of the response is the two
\* arguments.  The caller gives an index, an id (of the first version, of the
\* last one saved, or one never handed out), both or neither
StoreRestoreVersionCall ==
    /\ \E args \in ({None} \X ({None} \cup {Some(i) : i \in (0 - 1) .. MaxSaves}))
                   \cup ({Some(0), Some(next_id - 1), Some(next_id)} \X {None})
                   \cup ({Some(0), Some(next_id)} \X {Some(1)}) :
        LET version_id == args[1]
            version_index == args[2]
            matches == {i \in 0 .. Len(versions) - 1 :
                           ~IsNone(version_id) /\ versions[i + 1].id = version_id[1]}
            r == IF IsNone(current_state)
                 THEN Raised(TheStore, "TokenStore not initialized")
                 ELSE IF ~IsNone(version_id) /\ matches = {}
                 THEN Raised(TheStore, "Version ID not found")
                 ELSE IF ~IsNone(version_id)
                 THEN StoreRestoreVersion(TheStore, SetMin(matches))
                 ELSE IF ~IsNone(version_index)
                 THEN StoreRestoreVersion(TheStore, version_index[1])
                 ELSE Raised(TheStore, "Must provide either version_id or version_index")
            objects ==
                IF r.raised # "" THEN f_out
                ELSE Some([f_out[1] EXCEPT !.current =
                         DeepCopy(f_out[1].versions[r.store.current_version_index + 1],
                             {f_out[1].original} \cup
                             {f_out[1].versions[i] : i \in DOMAIN f_out[1].versions})])
        IN  /\ StoreBecomes(IF r.raised # "" THEN r.store
                            ELSE SharedObjects(r.store, objects[1]))
            /\ response' = Response("restore_version", r, FALSE, <<>>,
                                [version_id |-> version_id,
                                 version_index |-> version_index])
            /\ f_out' = objects
    /\ UNCHANGED <<f_in, threadVars>>

\* the calls a client of the store makes, in any order
StoreSpec ==
    Init /\ [][\/ StoreInitializeCall
               \/ StoreInitializeFromBlobCall
               \/ StoreApplyEditCall
               \/ StoreApplyEditOperationsCall
               \/ StoreSaveVersionCall
               \/ StoreRestoreVersionCall]_vars

-----------------------------------------------------------------------------
(* Properties of the version store.                                        *)

\* the request that made this step is one of the two edit calls and returned
EditReturned(resp) ==
    resp.op \in {"apply_edit", "apply_edit_operations"} /\ resp.raised = ""

\* the ids of the versions of a list
IdsOf(vs) == {vs[i].id : i \in 1 .. Len(vs)}

\* the last n characters of a text
Suffix(text, n) == SubSeq(text, Len(text) - n + 1, Len(text))

\* C1: an edit applied while the pointer p is not at the last version discards
\* the versions after p and appends the new one: p+2 versions, pointer p+1,
\* versions 0..p untouched, the last version holding the new edit.
C1_EditTruncatesFuture ==
    [][ (EditReturned(response') /\ current_version_index < Len(versions) - 1)
        => LET p == current_version_index
               last == versions'[Len(versions')]
           IN  /\ Len(versions') = p + 2
               /\ current_version_index' = p + 1
               /\ SubSeq(versions', 1, p + 1) = SubSeq(versions, 1, p + 1)
               /\ last.id \notin IdsOf(versions)
               /\ last.token_data = current_state'[1]
               /\ (response'.op = "apply_edit" =>
                      /\ last.label = "Edit"
                      /\ Suffix(last.edit_description, Len(response'.new_text))
                             = response'.new_text) ]_vars

\* initialize, edit A, back to version 0, edit B: two versions, pointer 1,
\* version 1 is B
C1_Witness ==
    /\ response.op = "apply_edit"
    /\ response.raised = ""
    /\ response.before_index = 0
    /\ response.before_count = 2
    /\ Len(versions) = 2
    /\ current_version_index = 1
    /\ response.new_text = <<"h","i">>
    /\ Suffix(versions[2].edit_description, 2) = <<"h","i">>

\* C2 as stated: when generation throws during apply_edit or during an operation
\* of apply_edit_operations, the call raises and the store (current state,
\* version list, pointer) is as before the call.
C2_FailedGenerationLeavesStore ==
    [][ (response'.op \in {"apply_edit", "apply_edit_operations"}
         /\ response'.gen_failed)
        => /\ response'.raised # ""
           /\ versions' = versions
           /\ current_version_index' = current_version_index
           /\ current_state' = current_state ]_vars

\* C6: undo moves the pointer from n to n-1 and redo from n to n+1, the version
\* list stays as it is, the current state becomes the content of the version now
\* pointed to; the reported can_undo is pointer > 0 and can_redo is that a later
\* version exists.
C6_UndoRedoMovePointer ==
    [][ /\ (response'.op = "undo" /\ current_version_index > 0)
           => /\ response'.raised = ""
              /\ current_version_index' = current_version_index - 1
        /\ (response'.op = "redo" /\ current_version_index < Len(versions) - 1)
           => /\ response'.raised = ""
              /\ current_version_index' = current_version_index + 1
        /\ (response'.op \in {"undo", "redo"} /\ response'.raised = "")
           => /\ versions' = versions
              /\ current_state' =
                     Some(versions[current_version_index' + 1].token_data)
        /\ (response'.op \in {"apply_edit", "apply_edit_operations", "undo", "redo",
                               "restore_version"}
            /\ response'.raised = "")
           => /\ response'.answer.raised = ""
              /\ response'.answer.value[1].can_undo = (current_version_index' > 0)
              /\ response'.answer.value[1].can_redo =
                     (current_version_index' < Len(versions') - 1) ]_vars

\* C7: undo at version 0 and redo at the last version are reported as errors
\* and leave the pointer, the version list and the current state as they were.
C7_BoundaryUndoRedoRejected ==
    [][ /\ (response'.op = "undo" /\ current_version_index = 0)
           => /\ response'.raised = "Cannot undo: already at the first version"
              /\ UNCHANGED <<versions, current_version_index, current_state>>
        /\ (response'.op = "redo" /\ ~IsNone(current_state)
            /\ current_version_index = Len(versions) - 1)
           => /\ response'.raised = "Cannot redo: already at the latest version"
              /\ UNCHANGED <<versions, current_version_index, current_state>> ]_vars

\* C8: restore_version(k) with 0 <= k < number of versions puts the pointer at
\* k and the content of version k in the current state and leaves the version
\* list as it is, the versions after k included.
C8_RestoreKeepsVersions ==
    [][ (response'.op = "restore_version" /\ ~IsNone(current_state)
         /\ 0 <= response'.target /\ response'.target < Len(versions))
        => /\ response'.raised = ""
           /\ current_version_index' = response'.target
           /\ current_state' = Some(versions[response'.target + 1].token_data)
           /\ versions' = versions ]_vars

\* a restore of version 0 from the last of three versions
C8_Witness ==
    /\ response.op = "restore_version"
    /\ response.raised = ""
    /\ response.target = 0
    /\ response.before_index = 2
    /\ current_version_index = 0
    /\ Len(versions) = 3

\* C9: a new store has no version, pointer -1 and no current state; initialize,
\* from a file or a blob, leaves exactly one version, "Original", at index 0,
\* the pointer at 0 and a current state.
C9_InitializeCreatesOriginal ==
    /\ response.op = "new"
       => /\ versions = <<>>
          /\ current_version_index = 0 - 1
          /\ IsNone(current_state)
    /\ response.op \in {"initialize", "initialize_from_blob"}
       => /\ response.before_count = 0
          /\ response.before_index = 0 - 1
          /\ Len(versions) = 1
          /\ versions[1].label = "Original"
          /\ current_version_index = 0
          /\ ~IsNone(current_state)
          /\ versions[1].token_data = current_state[1]

\* the store right after initialize_from_blob
C9_Witness ==
    /\ response.op = "initialize_from_blob"
    /\ Len(versions) = 1
    /\ current_state = Some(HelloAudio)

\* C10: an apply_edit that returns, and an apply_edit_operations of k >= 1
\* operations that returns, create exactly one new version each, "Multi-edit"
\* for the latter whatever k; it is the last of the list and the pointer is at it.
C10_OneVersionPerCall ==
    [][ EditReturned(response')
        => LET last == versions'[Len(versions')]
           IN  /\ Cardinality(IdsOf(versions') \ IdsOf(versions)) = 1
               /\ last.id \notin IdsOf(versions)
               /\ Len(versions') = current_version_index + 2
               /\ current_version_index' = Len(versions') - 1
               /\ next_id' = next_id + 1
               /\ last.label = IF response'.op = "apply_edit" THEN "Edit"
                               ELSE "Multi-edit" ]_vars

\* a multi-edit of two operations that left one new version
C10_Witness ==
    /\ response.op = "apply_edit_operations"
    /\ response.raised = ""
    /\ response.edits = 2
    /\ Len(versions) = response.before_count + 1
    /\ versions[Len(versions)].label = "Multi-edit"

(***************************************************************************)
(* Properties of fuse_tokens.                                              *)
(***************************************************************************)

\* the range of the call lies within the original array
RangeWithinBounds ==
    LET n == NumFramesOf(f_in[1].original_tokens)
        start == f_in[1].edit_range[1]
        end == f_in[1].edit_range[2]
    IN  0 <= start /\ start <= end /\ end <= n

\* C3: for every fusion method and every range with 0 <= start <= end <= Torig,
\* fuse_tokens returns an array with the codebooks of the original and exactly
\* Torig - (end - start) + Tgen frames.
C3_FusionLength ==
    (~IsNone(f_out) /\ RangeWithinBounds)
    => LET orig == f_in[1].original_tokens
           start == f_in[1].edit_range[1]
           end == f_in[1].edit_range[2]
           fused == f_out[1].tokens
       IN  /\ f_out[1].raised = ""
           /\ NumCodebooksOf(fused) = NumCodebooksOf(orig)
           /\ \A r \in 1 .. Len(fused) :
                 Len(fused[r]) = NumFramesOf(orig) - (end - start)
                                 + NumFramesOf(f_in[1].generated_tokens)

\* C4: for every fusion method and every k with 0 <= k <= Torig, fusing a
\* generated array of zero frames at (k, k) returns the original array, equal
\* in every codebook and every frame.
C4_EmptyInsertionIsIdentity ==
    (~IsNone(f_out) /\ RangeWithinBounds
        /\ f_in[1].edit_range[1] = f_in[1].edit_range[2]
        /\ NumFramesOf(f_in[1].generated_tokens) = 0)
    => (f_out[1].raised = "" /\ f_out[1].tokens = f_in[1].original_tokens)

\* C5: with use_semantic_preservation on, for every fusion method and window,
\* codebook 0 of a fused frame outside the inserted region is codebook 0 of the
\* original frame it stands for: frame i < start is original frame i, frame
\* i >= start + Tgen is original frame i - Tgen + (end - start).
C5_SemanticCodebookPreserved ==
    (~IsNone(f_out) /\ RangeWithinBounds
        /\ f_in[1].config.use_semantic_preservation)
    => LET orig == f_in[1].original_tokens
           start == f_in[1].edit_range[1]
           end == f_in[1].edit_range[2]
           gen_len == NumFramesOf(f_in[1].generated_tokens)
           fused == f_out[1].tokens
       IN  /\ f_out[1].raised = ""
           /\ \A i \in 0 .. NumFramesOf(fused) - 1 :
                 /\ i < start => At(fused, 0, i) = At(orig, 0, i)
                 /\ (i >= start + gen_len /\ i - gen_len + (end - start) < NumFramesOf(orig))
                       => At(fused, 0, i) = At(orig, 0, i - gen_len + (end - start))

(***************************************************************************)
(* Properties of inpaint and generate_replacement_tokens.                  *)
(***************************************************************************)

\* the edit of the call is a deletion: its edited text is empty
IsDeletionCall == ~IsNone(f_in) /\ f_in[1].edit_op.edited_text = <<>>

\* the range of the edit lies within the audio's frames
EditWithinFrames ==
    LET n == Len(f_in[1].tokenized_audio.rvq_tokens)
        start == f_in[1].edit_op.start_token_idx
        end == f_in[1].edit_op.end_token_idx
    IN  0 <= start /\ start <= end /\ end <= n

\* C11: a deletion (empty edited text) never invokes the generative model,
\* whatever the generator would have done; inpaint returns the original frames
\* before start followed by the original frames from end onward, Torig - (end -
\* start) frames for a range within the array, and generate_replacement_tokens
\* returns zero frames.
C11_DeletionSkipsGeneration ==
    (IsDeletionCall /\ ~IsNone(f_out))
    => LET orig == f_in[1].tokenized_audio.rvq_tokens
           start == f_in[1].edit_op.start_token_idx
           end == f_in[1].edit_op.end_token_idx
           out == f_out[1]
       IN  /\ ~out.generated
           /\ ~out.raised
           /\ f_in[1].fn = "generate_replacement_tokens" => Len(out.tokens) = 0
           /\ (f_in[1].fn = "inpaint" /\ EditWithinFrames)
                 => /\ Len(out.tokens) = Len(orig) - (end - start)
                    /\ \A i \in 1 .. Len(out.tokens) :
                          out.tokens[i] = IF i <= start THEN orig[i]
                                          ELSE orig[i + (end - start)]

\* inpaint has deleted frames 1..2 of a three-frame audio while the generator
\* would have thrown
C11_Witness ==
    /\ IsDeletionCall
    /\ f_in[1].fn = "inpaint"
    /\ ~f_in[1].gen.ok
    /\ f_in[1].edit_op.start_token_idx = 1
    /\ f_in[1].edit_op.end_token_idx = 3
    /\ ~IsNone(f_out)
    /\ f_out[1].tokens = <<1>>

-----------------------------------------------------------------------------
(* Properties of the token-text mapper.                                    *)

\* both lookups returned a token range
BothLookupsReturned ==
    /\ ~IsNone(f_out.outer)
    /\ ~IsNone(f_out.inner)
    /\ f_out.outer[1].result.raised = ""
    /\ f_out.inner[1].result.raised = ""

\* the text range of the later lookup lies within that of the first
LookupsNested ==
    /\ f_out.outer[1].text_range[1] <= f_out.inner[1].text_range[1]
    /\ f_out.inner[1].text_range[2] <= f_out.outer[1].text_range[2]

\* C13: when the text range of one lookup is contained in the text range of
\* another lookup on the same tokenized audio, the token range returned for
\* the inner text range is contained in or equal to the one returned for the
\* outer text range.
C13_NestedRangesStayNested ==
    (BothLookupsReturned /\ LookupsNested) =>
        /\ f_out.outer[1].result.value[1][1] <= f_out.inner[1].result.value[1][1]
        /\ f_out.inner[1].result.value[1][2] <= f_out.outer[1].result.value[1][2]

\* two nested lookups on a map of two words returned different token ranges
C13_Witness ==
    /\ BothLookupsReturned
    /\ LookupsNested
    /\ Len(f_in[1].transcription.chunks) = 2
    /\ Cardinality(DOMAIN f_out.full[1].text_to_token_map) = 3
    /\ f_out.inner[1].text_range # f_out.outer[1].text_range
    /\ f_out.inner[1].result.value[1][1] > f_out.outer[1].result.value[1][1]
    /\ f_out.inner[1].result.value[1][2] < f_out.outer[1].result.value[1][2]

\* the token range the lookup contract describes for a text range: the
\* nearest entries, the end moved on by three frames, both indices clamped to
\* the frames, and swapped when out of order
BufferedRange(tokenized_audio, text_range, num_frames) ==
    LET map == tokenized_audio.text_to_token_map
        keys == DOMAIN map
        before == {pos \in keys : pos <= text_range[1]}
        after == {pos \in keys : pos >= text_range[2]}
        start_entry == IF before # {} THEN SetMax(before) ELSE SetMin(keys)
        end_entry == IF after # {} THEN SetMin(after) ELSE SetMax(keys)
        start_token_idx == Clamp(map[start_entry], num_frames)
        end_token_idx == Clamp(map[end_entry] + 3, num_frames)
    IN  <<Min(start_token_idx, end_token_idx), Max(start_token_idx, end_token_idx)>>

\* C14: a lookup that returns gives the nearest entry at or before the start
\* offset and the nearest entry at or after the end offset (the earliest and
\* the latest entry when there is none), with three frames added to the end,
\* both indices clamped and put in order, so that
\* 0 <= start <= end <= number of frames.
C14_LookupAddsBufferAndClamps ==
    (~IsNone(f_out.outer) /\ f_out.outer[1].result.raised = "") =>
        LET returned == f_out.outer[1].result.value[1]
        IN  /\ returned = BufferedRange(f_out.full[1], f_out.outer[1].text_range,
                                        f_in[1].num_frames)
            /\ 0 <= returned[1]
            /\ returned[1] <= returned[2]
            /\ returned[2] <= f_in[1].num_frames

\* the frame indices of a semantic-to-RVQ map
MappedFrames(semantic_to_rvq_map) ==
    {semantic_to_rvq_map[i] : i \in DOMAIN semantic_to_rvq_map}

\* C15: for the same audio and word timestamps, tokenize gives the same
\* semantic-to-RVQ map with and without the semantic-only fast path, and
\* every frame index of the map lies in 0 .. number of frames - 1.
C15_SemanticMapSameOnFastPath ==
    (~IsNone(f_out.full) /\ ~IsNone(f_out.fast)) =>
        /\ f_out.fast[1].semantic_to_rvq_map = f_out.full[1].semantic_to_rvq_map
        /\ MappedFrames(f_out.full[1].semantic_to_rvq_map)
               \subseteq 0 .. f_in[1].num_frames - 1
        /\ MappedFrames(f_out.fast[1].semantic_to_rvq_map)
               \subseteq 0 .. f_in[1].num_frames - 1

-----------------------------------------------------------------------------
(* Properties of the edit resolver and of the pipeline.                    *)

\* find_edit_region returned an edit operation
EditResolved ==
    /\ ~IsNone(f_out.edit_op)
    /\ f_out.edit_op[1].raised = ""

\* C12: an edit whose original text is empty (or only white space) is
\* resolved with start_token_idx = end_token_idx, and inpaint then returns
\* the original frames before start, the generated frames and the original
\* frames from start on: Torig + Tgen frames, none of the original removed.
C12_InsertionRemovesNoFrame ==
    (EditResolved /\ IsBlank(f_in[1].proposal.subseq_original)) =>
        LET op == f_out.edit_op[1].value[1]
            tokens == f_out.tokenized_audio[1].rvq_tokens
            result == f_out.inpainted[1]
            generated == IF result.generated THEN f_in[1].gen.frames ELSE <<>>
        IN  /\ op.start_token_idx = op.end_token_idx
            /\ op.start_token_idx \in 0 .. Len(tokens)
            /\ (~IsNone(f_out.inpainted) /\ ~result.raised) =>
                   /\ result.tokens = SliceTo(tokens, op.start_token_idx) \o generated
                                          \o SliceFrom(tokens, op.start_token_idx)
                   /\ Len(result.tokens) = Len(tokens) + Len(generated)

\* an insertion with an empty original text was resolved and applied with
\* generated frames
C12_Witness ==
    /\ EditResolved
    /\ f_in[1].proposal.subseq_original = <<>>
    /\ ~IsNone(f_out.inpainted)
    /\ ~f_out.inpainted[1].raised
    /\ f_out.inpainted[1].generated
    /\ Len(f_out.inpainted[1].tokens) > Len(f_out.tokenized_audio[1].rvq_tokens)

\* C16: in every edit operation that find_edit_region returns, the end token
\* index of a pre-padding context is the operation's start_token_idx and the
\* start token index of a post-padding context is the operation's
\* end_token_idx.
C16_PaddingPinnedToEdit ==
    EditResolved =>
        LET op == f_out.edit_op[1].value[1]
        IN  /\ op.prepadding_text # <<>> =>
                   op.prepadding_end_token_idx = op.start_token_idx
            /\ op.postpadding_text # <<>> =>
                   op.postpadding_start_token_idx = op.end_token_idx

\* C17: for the transcript "The quick brown fox jumps" and the proposed
\* substring "quik brown fox", resolution returns an edit operation whose
\* character span is that of "quick brown fox" (offsets 4 to 19), found with
\* a similarity of at least 0.7, and whose token range is the one of that span.
C17_FuzzyMatchFindsTrueSubstring ==
    (/\ ~IsNone(f_out.edit_op)
     /\ f_in[1].transcription.text = <<"T","h","e"," ","q","u","i","c","k"," ","b","r","o","w","n"," ","f","o","x"," ","j","u","m","p","s">>
     /\ f_in[1].proposal.subseq_original = <<"q","u","i","k"," ","b","r","o","w","n"," ","f","o","x">>) =>
        /\ f_out.edit_op[1].raised = ""
        /\ ~IsNone(f_out.edit_op[1].fuzzy)
        /\ ~f_out.edit_op[1].fuzzy[1].warned
        /\ f_out.edit_op[1].located = <<4, 19>>
        /\ <<f_out.edit_op[1].value[1].start_token_idx,
             f_out.edit_op[1].value[1].end_token_idx>>
               = FindTokenRange(f_out.tokenized_audio[1], <<4, 19>>).value[1]

\* C18: when the proposed substring is not in the transcript and the best
\* fuzzy match has a similarity below 0.7, find_edit_region fails and
\* returns no edit operation.
C18_LowConfidenceMatchFails ==
    (/\ ~IsNone(f_out.edit_op)
     /\ ~IsNone(f_out.edit_op[1].fuzzy)
     /\ f_out.edit_op[1].fuzzy[1].warned) =>
        /\ f_out.edit_op[1].raised # ""
        /\ IsNone(f_out.edit_op[1].value)

-----------------------------------------------------------------------------
(* Properties of fuse_tokens on ranges outside the array.                  *)

\* C19: fuse_tokens called with a range that is inverted or reaches outside
\* the original array raises nothing: it returns a fused array, with start
\* and end clamped into 0 .. Torig and a range with end <= start taken as an
\* insertion that removes no frame.
C19_BadRangeIsClampedNotRaised ==
    (~IsNone(f_out) /\ ~RangeWithinBounds) =>
        LET orig_len == NumFramesOf(f_in[1].original_tokens)
            start == Clamp(f_in[1].edit_range[1], orig_len)
            end == Clamp(f_in[1].edit_range[2], orig_len)
        IN  /\ f_out[1].raised = ""
            /\ NumFramesOf(f_out[1].tokens)
                   = orig_len - Max(0, end - start)
                     + NumFramesOf(f_in[1].generated_tokens)

-----------------------------------------------------------------------------
(* Properties of concurrent requests on one session.                       *)

\* the threads that are inside a handler
InsideHandler == {t \in ThreadIds : threads[t].pc \in {"locked", "save", "answer"}}

\* what a request does and answers when it is served alone on the session
\* whose store is st, with registry the ids that are registered
ServedAlone(st, registry, req) ==
    LET answered(r) == [store |-> r.store, raised |-> r.raised, value |-> r.value,
                        sessions |-> registry]
    IN  IF req.op = "cleanup_session"
        THEN [store |-> st, raised |-> "", value |-> None,
              sessions |-> registry \ {SessionId}]
        ELSE IF SessionId \notin registry
        THEN answered(Raised(st, "Session not found"))
        ELSE IF req.op = "apply_edit"
        THEN answered(AnswerWithState(StoreApplyEdit(st, req.range[1], req.range[2],
                                                     req.new_text, req.gen)))
        ELSE IF req.op = "apply_multiple_edits"
        THEN answered(AnswerWithState(StoreApplyEditOperations(st, req.ops, req.gens)))
        ELSE IF req.op = "restore_version"
        THEN answered(AnswerWithState(StoreRestoreVersion(st, req.target)))
        ELSE IF req.op = "undo" THEN answered(SessionUndo(st))
        ELSE IF req.op = "redo" THEN answered(SessionRedo(st))
        ELSE answered(GetSessionState(st))

\* the store, the registry and the answers are those of serving first, then
\* second, one after the other, on the session as it was
SerialOutcome(first, second) ==
    LET r1 == ServedAlone(SessionAtHead(f_in[1].prior), {SessionId},
                          threads[first].request)
        r2 == ServedAlone(r1.store, r1.sessions, threads[second].request)
    IN  /\ TheStore = r2.store
        /\ sessions = r2.sessions
        /\ threads[first].answer = Some([raised |-> r1.raised, value |-> r1.value])
        /\ threads[second].answer = Some([raised |-> r2.raised, value |-> r2.value])

\* C20: at most one thread is inside a handler of the session manager at any
\* time, and when the two concurrent requests are finished the store and the
\* answers are those of some serial order of the two; two apply_edit on a
\* session of n versions with the pointer at the head leave n + 2 versions
\* and the pointer at n + 1.
C20_RequestsAreSerialized ==
    /\ Cardinality(InsideHandler) <= 1
    /\ (\A t \in ThreadIds : threads[t].pc = "done") =>
           /\ SerialOutcome(1, 2) \/ SerialOutcome(2, 1)
           /\ (\A t \in ThreadIds : threads[t].request.op = "apply_edit") =>
                  /\ Len(versions) = Len(SessionAtHead(f_in[1].prior).versions) + 2
                  /\ current_version_index
                         = Len(SessionAtHead(f_in[1].prior).versions) + 1

\* two apply_edit that generate frames for different ranges have both
\* finished on a session that had more than one version: both edits are
\* in the version list
C20_Witness ==
    /\ \A t \in ThreadIds :
           /\ threads[t].pc = "done"
           /\ threads[t].request.op = "apply_edit"
           /\ threads[t].request.gen.ok
           /\ threads[t].request.new_text # <<>>
    /\ threads[1].request.range # threads[2].request.range
    /\ f_in[1].prior > 0
    /\ Len(versions) = Len(SessionAtHead(f_in[1].prior).versions) + 2
    /\ current_version_index = Len(versions) - 1
    /\ versions[Len(versions)].token_data = current_state[1]

-----------------------------------------------------------------------------
(* Properties of the encoding of generated audio.                          *)

\* a call of the call specification has returned or raised
Finished(fn) == ~IsNone(f_in) /\ ~IsNone(f_out) /\ f_in[1].fn = fn

\* C21: when the streaming encode of the generated audio fails inside inpaint,
\* the frames inserted into the result are the tokens the standard encode gives
\* for the generated audio.
C21_StreamingFailureFallsBack ==
    (/\ Finished("inpaint")
     /\ ~IsBlank(f_in[1].edit_op.edited_text)
     /\ f_in[1].generated.ok
     /\ f_in[1].codec.stream.throws) =>
        LET standard == MimiEncode(FALSE, f_in[1].generated.audio, f_in[1].codec)
            tokens == f_in[1].tokenized_audio.rvq_tokens
        IN  /\ ~f_out[1].raised
            /\ f_out[1].tokens
                   = SliceTo(tokens, f_in[1].edit_op.start_token_idx)
                     \o standard.value[1].frames
                     \o SliceFrom(tokens, f_in[1].edit_op.end_token_idx)

-----------------------------------------------------------------------------
(* Properties of the codec adapter.                                        *)

\* C22: encode and decode of the codec adapter never raise: when the codec
\* model throws, encode returns a token array of shape (32, 1) filled with
\* zeros and decode returns a waveform of 1920 zero samples.
C22_CodecNeverRaises ==
    /\ Finished("encode") =>
           /\ f_out[1].raised = ""
           /\ (f_in[1].audio.convertible /\ f_in[1].codec.standard.throws)
                  => f_out[1].value = Some([shape |-> <<32, 1>>, frames |-> <<0>>])
    /\ Finished("decode") =>
           /\ f_out[1].raised = ""
           /\ (f_in[1].tokens.convertible /\ f_in[1].codec.decode.throws)
                  => f_out[1].value = Some([shape |-> <<1920>>, zeros |-> TRUE,
                                            of |-> <<>>])

-----------------------------------------------------------------------------
(* Properties of the forced aligner.                                       *)

\* the tokens align_transcript prepares for the call in f_in
PreparedTokens ==
    PrepareTextForAlignment(f_in[1].transcript, f_in[1].model_dictionary).tokens

\* the beam search of the call in f_in is reached and returns no path
BacktrackingFails ==
    LET emission == LogSoftmax(f_in[1].logits)
        trellis == GetTrellis(emission, PreparedTokens, 0)
    IN  /\ PreparedTokens # <<>>
        /\ trellis.raised = ""
        /\ IsNone(BacktrackBeam(trellis.value, emission, PreparedTokens, 0, 4).value)

\* C23: when the transcript has no character of the model's dictionary, or the
\* beam backtracking yields no path, align_transcript raises nothing and
\* returns exactly one word: the transcript, from start_time to end_time (the
\* length of the audio when no end is given), with score 0.
C23_UnalignableGivesDummyWord ==
    (Finished("align_transcript") /\ (PreparedTokens = <<>> \/ BacktrackingFails)) =>
        /\ f_out[1].raised = ""
        /\ Len(f_out[1].value) = 1
        /\ f_out[1].value[1].word = f_in[1].transcript
        /\ f_out[1].value[1].start = <<f_in[1].start_time, 1>>
        /\ f_out[1].value[1].end
               = <<IF IsNone(f_in[1].end_time) THEN f_in[1].audio_length
                   ELSE f_in[1].end_time[1], 1>>
        /\ f_out[1].value[1].score.zero

\* a transcript of two characters on an emission of one frame: the beam search
\* found no path and the dummy word was returned
C23_Witness ==
    /\ Finished("align_transcript")
    /\ BacktrackingFails
    /\ Len(PreparedTokens) = 2
    /\ Len(f_in[1].logits) = 1
    /\ Len(f_out[1].value) = 1
    /\ f_out[1].value[1].score.zero

-----------------------------------------------------------------------------
(* Properties of the text lookup of the store.                             *)

\* C27: on the text "hello world test" with the token-to-character map
\* {0: 0, 1: 5, 2: 11}, _get_text_for_token_range returns the words covered by
\* the tokens without white space around them: "hello" for (0, 1), "world" for
\* (1, 2), and the whole text for (0, 3), whose end is past the last mapped
\* token.
C27_TextOfRangeIsItsWords ==
    (Finished("_get_text_for_token_range") /\ f_in[1].state = HelloAudio) =>
        LET range == <<f_in[1].start_token_idx, f_in[1].end_token_idx>>
        IN  /\ range = <<0, 1>> => f_out[1] = <<"h","e","l","l","o">>
            /\ range = <<1, 2>> => f_out[1] = <<"w","o","r","l","d">>
            /\ range = <<0, 3>> => f_out[1] = HelloAudio.text

-----------------------------------------------------------------------------
(* Properties of the beam search of the aligner.                           *)

\* the path a finished _backtrack_beam call returned is monotone: one point per
\* time index 0 .. T in increasing order, token 0 at time 0, token J at time T,
\* and from one time index to the next the token index stays or grows by one
PathIsMonotone ==
    LET path == f_out[1].value[1]
        T == Len(f_in[1].trellis) - 1
        J == Len(f_in[1].tokens) - 1
    IN  /\ Len(path) = T + 1
        /\ \A i \in 1 .. T + 1 : path[i].time_index = i - 1
        /\ path[1].token_index = 0
        /\ path[T + 1].token_index = J
        /\ \A i \in 1 .. T :
               path[i + 1].token_index - path[i].token_index \in {0, 1}

\* C29: for a trellis of T + 1 frames and J + 1 tokens built by _get_trellis and
\* any beam width >= 1, the search loop of _backtrack_beam runs at most T times,
\* or once when T = 0, and a path that is returned is monotone.
C29_BeamSearchTerminatesWithMonotonePath ==
    Finished("_backtrack_beam") =>
        /\ f_out[1].iterations <= Max(Len(f_in[1].trellis) - 1, 1)
        /\ ~IsNone(f_out[1].value) => PathIsMonotone

\* a path over three frames and two tokens was returned after the search loop
\* stopped early and the remaining frames were filled in
C29_Witness ==
    /\ Finished("_backtrack_beam")
    /\ Len(f_in[1].trellis) = 3
    /\ Len(f_in[1].tokens) = 2
    /\ ~IsNone(f_out[1].value)
    /\ f_out[1].iterations = 1
    /\ PathIsMonotone

\* C29 as stated: the search loop never runs more than T times.
C29_AtMostTIterations ==
    Finished("_backtrack_beam") =>
        /\ f_out[1].iterations <= Len(f_in[1].trellis) - 1
        /\ ~IsNone(f_out[1].value) => PathIsMonotone

-----------------------------------------------------------------------------
(* Properties of batch_inpaint.                                            *)

\* the edits of the batch call in f_in, in the order batch_inpaint processes
\* them, each with the frames generated for it (none for a deletion)
BatchEdits ==
    LET sorted_edits == SortByStart(f_in[1].edit_operations)
    IN  [i \in 1 .. Len(sorted_edits) |->
            [start |-> sorted_edits[i].start_token_idx,
             end |-> sorted_edits[i].end_token_idx,
             ok |-> IsBlank(sorted_edits[i].edited_text) \/ f_in[1].gens[i].ok,
             frames |-> IF IsBlank(sorted_edits[i].edited_text) THEN <<>>
                        ELSE f_in[1].gens[i].frames]]

\* the ranges of the edits lie within the original and no two of them overlap
BatchEditsDisjoint ==
    LET n == Len(f_in[1].tokenized_audio.rvq_tokens)
    IN  /\ \A i \in DOMAIN BatchEdits :
               /\ 0 <= BatchEdits[i].start
               /\ BatchEdits[i].start <= BatchEdits[i].end
               /\ BatchEdits[i].end <= n
        /\ \A i, j \in DOMAIN BatchEdits :
               i # j => \/ BatchEdits[i].end <= BatchEdits[j].start
                        \/ BatchEdits[j].end <= BatchEdits[i].start

\* the original with every edit's range replaced by the edit's frames: the
\* edits from left to right, an insertion point before a range that starts
\* where it lies
SplicedOriginal ==
    LET tokens == f_in[1].tokenized_audio.rvq_tokens
        before(i, j) ==
            \/ BatchEdits[i].start < BatchEdits[j].start
            \/ /\ BatchEdits[i].start = BatchEdits[j].start
               /\ \/ BatchEdits[i].end < BatchEdits[j].end
                  \/ (BatchEdits[i].end = BatchEdits[j].end /\ i < j)
        at(k) == CHOOSE i \in DOMAIN BatchEdits :
                     Cardinality({j \in DOMAIN BatchEdits : before(j, i)}) = k - 1
        upto[k \in 0 .. Len(BatchEdits)] ==
            IF k = 0 THEN <<>>
            ELSE upto[k - 1]
                 \o Slice(tokens, IF k = 1 THEN 0 ELSE BatchEdits[at(k - 1)].end,
                          BatchEdits[at(k)].start)
                 \o BatchEdits[at(k)].frames
    IN  IF BatchEdits = <<>> THEN tokens
        ELSE upto[Len(BatchEdits)]
             \o SliceFrom(tokens, BatchEdits[at(Len(BatchEdits))].end)

\* C30: for edits whose ranges are in bounds and pairwise non-overlapping and
\* whose generations succeed, batch_inpaint returns the original segments
\* between the edited ranges, in order, with each edit's generated frames in
\* place of its range; the length is Torig plus the sum over the edits of
\* Tgen_i - (end_i - start_i).
C30_BatchSplicesEveryEdit ==
    (/\ Finished("batch_inpaint")
     /\ BatchEditsDisjoint
     /\ \A i \in DOMAIN BatchEdits : BatchEdits[i].ok) =>
        /\ ~f_out[1].raised
        /\ f_out[1].tokens = SplicedOriginal

-----------------------------------------------------------------------------
(* The spoken sentence.                                                    *)

\* "One piece of chocolate, please."
ChocolateText ==
    <<"O","n","e"," ","p","i","e","c","e"," ","o","f"," ",
      "c","h","o","c","o","l","a","t","e",","," ","p","l","e","a","s","e",".">>

\* "One piece of vanilla, please."
VanillaText ==
    <<"O","n","e"," ","p","i","e","c","e"," ","o","f"," ",
      "v","a","n","i","l","l","a",","," ","p","l","e","a","s","e",".">>

\* the last call was an apply_edit that replaced the token range of "chocolate"
\* in the sentence by "vanilla", and generation did not throw
ChocolateReplaced ==
    /\ response.op = "apply_edit"
    /\ response.raised = ""
    /\ ~response.gen_failed
    /\ response.new_text = <<"v","a","n","i","l","l","a">>
    /\ versions[response.before_index + 1].token_data.text = ChocolateText

\* C24: after the edit that replaces the token range of "chocolate" by "vanilla"
\* in "One piece of chocolate, please.", the current transcript is exactly
\* "One piece of vanilla, please." and the number of frames is the old number
\* minus the frames of the replaced range plus the generated frames.
C24_ChocolateBecomesVanilla ==
    ChocolateReplaced =>
        LET before == versions[response.before_index + 1].token_data
            generated == (CHOOSE gen \in GenOutcomes : gen.ok).frames
        IN  /\ current_state[1].text = VanillaText
            /\ Len(current_state[1].rvq_tokens) =
                   Len(before.rvq_tokens)
                       - (response.target[2] - response.target[1]) + Len(generated)

-----------------------------------------------------------------------------
(* restore_version with a target that does not exist.                      *)

\* the messages of the ValueErrors restore_version raises
RestoreValueErrors ==
    {"TokenStore not initialized", "Version ID not found",
     "Version index out of range",
     "Must provide either version_id or version_index"}

\* the arguments name no version of the list vs: an id that no version has,
\* or, without an id, an index outside 0 .. Len(vs) - 1
NamesNoVersion(target, vs) ==
    \/ /\ ~IsNone(target.version_id)
       /\ \A i \in DOMAIN vs : vs[i].id # target.version_id[1]
    \/ /\ IsNone(target.version_id)
       /\ ~IsNone(target.version_index)
       /\ (target.version_index[1] < 0 \/ target.version_index[1] >= Len(vs))

\* C25: a restore_version by index whose index is outside 0 .. number of
\* versions - 1 (-1 included), or by id whose id matches no stored version,
\* raises ValueError and leaves the pointer, the version list and the current
\* state as they were.
C25_InvalidRestoreRaisesAndKeepsState ==
    [][(response'.op = "restore_version"
            /\ NamesNoVersion(response'.target, versions))
          => /\ response'.raised \in RestoreValueErrors
             /\ UNCHANGED <<versions, current_version_index, current_state>>]_vars

\* restore_version(version_index=-1) was refused in a store of several versions
\* whose pointer is not at the last one
C25_Witness ==
    /\ response.op = "restore_version"
    /\ response.target.version_index = Some(0 - 1)
    /\ response.raised = "Version index out of range"
    /\ Len(versions) > 1
    /\ current_version_index < Len(versions) - 1

-----------------------------------------------------------------------------
(* Saved versions are immutable.                                           *)

\* no version shares its TokenizedAudio object with current_state or with
\* another version
VersionsOwnTheirData(objects) ==
    /\ \A i \in DOMAIN objects.versions : objects.versions[i] # objects.current
    /\ \A i, j \in DOMAIN objects.versions :
           i # j => objects.versions[i] # objects.versions[j]

\* C26: the content (tokens, transcript, audio) of a saved version never
\* changes: after any apply_edit, apply_edit_operations, save_version, undo,
\* redo or restore_version every version that is still in the list holds what
\* it held before, and the state an edit writes belongs to the new version
\* only: no version shares its data with the current state or another version.
C26_SavedVersionsNeverChange ==
    [][/\ \A i \in DOMAIN versions : \A j \in DOMAIN versions' :
              versions[i].id = versions'[j].id
                  => versions'[j].token_data = versions[i].token_data
       /\ ~IsNone(f_out') => VersionsOwnTheirData(f_out'[1])]_vars

\* an edit was applied at a restored version that is not the last one: the
\* current state has new tokens and a new transcript, and the version the
\* edit started from is still in the list with the old ones
C26_Witness ==
    /\ response.op \in {"apply_edit", "apply_edit_operations"}
    /\ response.raised = ""
    /\ response.before_index < response.before_count - 1
    /\ LET from == versions[response.before_index + 1].token_data
       IN  /\ current_state[1].rvq_tokens # from.rvq_tokens
           /\ current_state[1].text # from.text
           /\ current_state[1].audio # from.audio
           /\ versions[Len(versions)].token_data = current_state[1]

-----------------------------------------------------------------------------
(* The store after initialize.                                             *)

\* C28: once initialize has succeeded, after any sequence of apply_edit,
\* apply_edit_operations, save_version and restore_version calls, successful
\* or failing, the version list has at least one entry, the pointer is within
\* 0 .. number of versions - 1, and version 0 is the "Original" version that
\* initialize created, with the content initialize gave it.
C28_InitializedStoreKeepsOriginal ==
    ~IsNone(current_state) =>
        /\ Len(versions) >= 1
        /\ 0 <= current_version_index
        /\ current_version_index < Len(versions)
        /\ versions[1].id = 0
        /\ versions[1].label = "Original"
        /\ versions[1].token_data = original_state[1]

\* an edit was saved after a restore of version 0 from a longer list, and a
\* restore_version was refused afterwards
C28_Witness ==
    /\ response.op = "restore_version"
    /\ response.raised # ""
    /\ Len(versions) = 2
    /\ next_id > 2
    /\ versions[1].label = "Original"
    /\ versions[2].label # "Original"

=============================================================================
